---- MODULE Spec2Model ----
(***************************************************************************)
(* btfparse: the BTF decoder (BTF::BTF, parseTypeSections, the per-kind    *)
(* parsers, parseString), the file reader it reads through, and the        *)
(* iteration of the decoded type map by dump-btf.                          *)
(*                                                                         *)
(* Files are byte sequences.  A 32-bit word is kept as its four bytes in   *)
(* significance order (least significant first), so that the bit slices    *)
(* the code takes (info & 0xFFFF, info >> 24, offset & 0xFFFFFF, ...) are  *)
(* slices of bytes; Num gives the value of a word below 2^31.              *)
(***************************************************************************)
EXTENDS Integers, Sequences, FiniteSets, TLC

VARIABLES
  input,          \* the blobs handed to the decoder, as they were produced
  files,          \* the files behind path_list: [exists, bytes]
  pc,             \* where createFromPathList is
  path_idx,       \* BTF::BTF: index of the next path of path_list
  btf_file_list,  \* BTF::BTF: the BTFFile list built so far
  readers,        \* per file: the FileReader context [file_pos, little_endian]
  sect,           \* parseTypeSections: index of the current btf_file
  sect_end,       \* parseTypeSections: type_section_end_offset
  current_offset, \* parseTypeSections: offset of the last record header read
  type_id,        \* parseTypeSections: the id counter
  btf_type_map,   \* parseTypeSections: the local map being filled
  d_btf_type_map, \* BTF::PrivateData::btf_type_map of the constructed object
  object,         \* whether an IBTF object was handed to the caller
  result,         \* what createFromPathList returned
  str_log,        \* the string lookups made for the last record parsed
  last_kind,      \* the kind ordinal of the last record header read
  failed_step,    \* the step of the decode that failed, "" if none did
  dumped,         \* dump-btf: the ids printed so far
  gen_pc,         \* where generate() is
  context,        \* generate(): its Context
  header,         \* the string generate() was handed
  gen_result,     \* what generate() returned, or the exception that left it
  gen_run,        \* 1, or 2 when generate() runs on the map of its first run
  first_map,      \* the btf_type_map the first run of generate() left
  created_tree,   \* the type_tree createTypeTree built
  fr_context,     \* a FileReader on its own: its Context, stream included
  fr_op,          \* the last operation on that FileReader and how it ended
  results,        \* the Result objects of a caller, by the caller's names
  res_op,         \* the last operation on a Result and how it ended
  use_exceptions, \* the use_exceptions parameter of those Results
  br_pc,          \* where LLVMBridge::importAllTypes is
  br_context,     \* LLVMBridge::Context, and which struct types have a body
  br_loop,        \* importAllTypes: its queues, loop position and `updated`
  br_result       \* what importAllTypes returned

decodevars ==
  <<input, files, pc, path_idx, btf_file_list, readers, sect, sect_end,
    current_offset, type_id, btf_type_map, d_btf_type_map, object,
    result, str_log, last_kind, failed_step, dumped>>

genvars ==
  <<gen_pc, context, header, gen_result, gen_run, first_map, created_tree>>

readervars == <<fr_context, fr_op>>

resultvars == <<results, res_op, use_exceptions>>

bridgevars == <<br_pc, br_context, br_loop, br_result>>

libvars == <<readervars, resultvars, bridgevars>>

vars == <<decodevars, genvars, libvars>>

----------------------------------------------------------------------------
(* Bounds of the model. *)

MaxBlobs == 2       \* blobs of one decode, decode family
MaxTypes == 3       \* type records of one decode, decode family
MaxStrBlobs == 3    \* blobs of one decode, string family
MaxStrLen == 2      \* str_len of a blob, string family
MaxParams == 2      \* parameters of a FuncProto record
MaxMembers == 2     \* members of a Struct/Union record
MaxGenTypes == 2    \* type records of a list of the generator family

(* Program constants. *)

kBTFTypeHeaderSize == 12
kIntBTFTypeSize == 4
kArrayBTFTypeSize == 12
kEnumValueBTFTypeSize == 8
kVarDataSize == 4
kVarSecInfoSize == 12
kMaxKind == 16

----------------------------------------------------------------------------
(* Words. *)

Word(v) == <<v % 256, (v \div 256) % 256, (v \div 65536) % 256,
             (v \div 16777216) % 256>>

Num(w) == w[1] + 256 * w[2] + 65536 * w[3] + 16777216 * w[4]

Rev(s) == [i \in 1..Len(s) |-> s[Len(s) + 1 - i]]

----------------------------------------------------------------------------
(* Errors. *)

NoRange == [has |-> FALSE, offset |-> 0, size |-> 0]

Range(o, s) == [has |-> TRUE, offset |-> o, size |-> s]

FileReaderError(code, op) == [code |-> code, opt_read_operation |-> op]

BTFError(code, range) == [code |-> code, opt_file_range |-> range]

NoError == BTFError("", NoRange)

convertFileReaderError(e) ==
  BTFError(CASE e.code = "MemoryAllocationFailure" -> "MemoryAllocationFailure"
             [] e.code = "FileNotFound" -> "FileNotFound"
             [] e.code = "IOError" -> "IOError"
             [] OTHER -> "Unknown",
           e.opt_read_operation)

----------------------------------------------------------------------------
(* MemoryFileAdapter and FileReader.  A reader operation on the bytes of a *)
(* file at cursor pos gives [ok, val, pos, err]: err is the                *)
(* FileReaderError thrown when ok is FALSE.                                *)

NoFRError == FileReaderError("", NoRange)

MemorySeek(bytes, offset) == ~(offset >= Len(bytes))

MemoryRead(bytes, pos, size) == ~(pos + size > Len(bytes))

seek(bytes, pos, offset) ==
  IF MemorySeek(bytes, offset)
    THEN [ok |-> TRUE, val |-> <<>>, pos |-> offset, err |-> NoFRError]
    ELSE [ok |-> FALSE, val |-> <<>>, pos |-> pos,
          err |-> FileReaderError("IOError", Range(offset, 0))]

read(bytes, pos, size) ==
  IF MemoryRead(bytes, pos, size)
    THEN [ok |-> TRUE, val |-> SubSeq(bytes, pos + 1, pos + size),
          pos |-> pos + size, err |-> NoFRError]
    ELSE [ok |-> FALSE, val |-> <<>>, pos |-> pos,
          err |-> FileReaderError("IOError", Range(pos, size))]

(* v is computed once and named in what follows it. *)
Bind(v, K(_)) == K(v)

u8(bytes, pos) == read(bytes, pos, 1)

u16(bytes, pos, little_endian) ==
  Bind(read(bytes, pos, 2), LAMBDA r :
    IF r.ok /\ ~little_endian THEN [r EXCEPT !.val = Rev(r.val)] ELSE r)

u32(bytes, pos, little_endian) ==
  Bind(read(bytes, pos, 4), LAMBDA r :
    IF r.ok /\ ~little_endian THEN [r EXCEPT !.val = Rev(r.val)] ELSE r)

----------------------------------------------------------------------------
(* parseString.  A parser works on st = [rs, log]: rs the reader contexts  *)
(* per file, log the lookups parseString(list, offset) made, each with the *)
(* blob it chose (0: none) and the relative offset inside that blob's      *)
(* string section.                                                         *)

None == [has |-> FALSE, val |-> <<>>]

Some(s) == [has |-> TRUE, val |-> s]

RECURSIVE ReadCString(_, _, _)
ReadCString(bytes, pos, buffer) ==
  Bind(u8(bytes, pos), LAMBDA r :
    IF ~r.ok
      THEN [ok |-> FALSE, val |-> buffer, pos |-> r.pos, err |-> r.err]
      ELSE IF r.val[1] = 0
        THEN [ok |-> TRUE, val |-> buffer, pos |-> r.pos, err |-> NoFRError]
        ELSE ReadCString(bytes, r.pos, Append(buffer, r.val[1])))

StringFail(e, pos) ==
  [failed |-> TRUE, err |-> convertFileReaderError(e), val |-> <<>>,
   pos |-> pos]

(* parseString(IFileReader &, offset) without its second seek. *)
parseStringReaderAdvancing(bytes, original_offset, offset) ==
  Bind(seek(bytes, original_offset, offset), LAMBDA s :
    IF ~s.ok THEN StringFail(s.err, s.pos)
    ELSE Bind(ReadCString(bytes, s.pos, <<>>), LAMBDA c :
      IF ~c.ok THEN StringFail(c.err, c.pos)
      ELSE [failed |-> FALSE, err |-> NoError, val |-> c.val,
            pos |-> c.pos]))

(* parseString(IFileReader &, offset): [failed, err, val, pos]. *)
parseStringReader(bytes, original_offset, offset) ==
  Bind(seek(bytes, original_offset, offset), LAMBDA s :
    IF ~s.ok THEN StringFail(s.err, s.pos)
    ELSE Bind(ReadCString(bytes, s.pos, <<>>), LAMBDA c :
      IF ~c.ok THEN StringFail(c.err, c.pos)
      ELSE Bind(seek(bytes, c.pos, original_offset), LAMBDA b :
        IF ~b.ok THEN StringFail(b.err, b.pos)
        ELSE [failed |-> FALSE, err |-> NoError, val |-> c.val,
              pos |-> b.pos])))

(* The test of parseString(list, offset) that chooses the blob: offset and *)
(* relative_offset are 64-bit, so offset - start_offset below 0 wraps to a *)
(* value above every 32-bit end_offset.                                    *)
InBlob(offset, start_offset, end_offset) ==
  offset >= start_offset /\ offset - start_offset < end_offset

Lookup(offset, blob, relative_offset) ==
  [offset |-> offset, blob |-> blob, relative_offset |-> relative_offset]

(* The body of the loop of parseString(list, offset) for the btf_file k    *)
(* that InBlob chose.                                                      *)
parseStringIn(fs, l, st, offset, k, relative_offset) ==
  Bind(parseStringReader(fs[l[k].file].bytes, st.rs[l[k].file].file_pos,
                         l[k].btf_header.hdr_len + l[k].btf_header.str_off
                         + relative_offset),
       LAMBDA r :
    [failed |-> r.failed, err |-> r.err, val |-> r.val,
     st |-> [rs |-> [st.rs EXCEPT ![l[k].file].file_pos = r.pos],
             log |-> Append(st.log, Lookup(offset, k, relative_offset))]])

(* parseString(const BTFFileList &, offset), its loop from btf_file k on:  *)
(* [failed, err, val, st].                                                 *)
RECURSIVE parseStringLoop(_, _, _, _, _, _)
parseStringLoop(fs, l, st, offset, k, start_offset) ==
  IF k > Len(l)
    THEN [failed |-> TRUE,
          err |-> BTFError("InvalidStringOffset", Range(offset, 0)),
          val |-> <<>>,
          st |-> [st EXCEPT !.log = Append(@, Lookup(offset, 0, 0))]]
    ELSE Bind(start_offset + l[k].btf_header.str_len, LAMBDA end_offset :
      IF InBlob(offset, start_offset, end_offset)
        THEN parseStringIn(fs, l, st, offset, k, offset - start_offset)
        ELSE parseStringLoop(fs, l, st, offset, k + 1, end_offset))

parseString(fs, l, st, offset) == parseStringLoop(fs, l, st, offset, 1, 0)

----------------------------------------------------------------------------
(* Reading through the file reader of btf_file i. *)

ReadU32(fs, l, i, st) ==
  Bind(u32(fs[l[i].file].bytes, st.rs[l[i].file].file_pos,
           st.rs[l[i].file].little_endian),
       LAMBDA r :
    [ok |-> r.ok, val |-> r.val, err |-> r.err,
     st |-> [st EXCEPT !.rs[l[i].file].file_pos = r.pos]])

Offset(l, i, st) == st.rs[l[i].file].file_pos

(* parseTypeHeader: [failed, err, hdr, st]. *)
NoHeader == [name_off |-> 0, vlen |-> 0, kind |-> 0, kind_flag |-> FALSE,
             size_or_type |-> 0]

HeaderFail(e, st) ==
  [failed |-> TRUE, err |-> convertFileReaderError(e), hdr |-> NoHeader,
   st |-> st]

parseTypeHeader(fs, l, i, st) ==
  Bind(ReadU32(fs, l, i, st), LAMBDA a :
    IF ~a.ok THEN HeaderFail(a.err, a.st)
    ELSE Bind(ReadU32(fs, l, i, a.st), LAMBDA b :
      IF ~b.ok THEN HeaderFail(b.err, b.st)
      ELSE Bind(ReadU32(fs, l, i, b.st), LAMBDA c :
        IF ~c.ok THEN HeaderFail(c.err, c.st)
        ELSE [failed |-> FALSE, err |-> NoError,
              hdr |-> [name_off |-> Num(a.val),
                       vlen |-> b.val[1] + 256 * b.val[2],
                       kind |-> b.val[4] % 32,
                       kind_flag |-> (b.val[4] \div 128) = 1,
                       size_or_type |-> Num(c.val)],
              st |-> c.st])))

----------------------------------------------------------------------------
(* The per-kind parsers: [failed, err, type, st]. *)

NoType == [kind |-> "Void"]

Fail(e, st) == [failed |-> TRUE, err |-> e, type |-> NoType, st |-> st]

Ok(t, st) == [failed |-> FALSE, err |-> NoError, type |-> t, st |-> st]

(* file_range of a parser: from the record header, size bytes. *)
FileRange(l, i, st, size) == Range(Offset(l, i, st) - kBTFTypeHeaderSize, size)

IntEncoding(encoding) ==
  IF encoding % 2 # 0 THEN "Signed"
  ELSE IF (encoding \div 2) % 2 # 0 THEN "Char"
  ELSE IF (encoding \div 4) % 2 # 0 THEN "Bool"
  ELSE "None"

(* A count of the encoding bits that leaves out bool. *)
EncodingBitsNoBool(encoding) ==
  (IF encoding % 2 # 0 THEN 1 ELSE 0)
  + (IF (encoding \div 2) % 2 # 0 THEN 1 ELSE 0)

(* The bits of the encoding nibble that are set: signed, char, bool. *)
EncodingBits(encoding) ==
  (IF encoding % 2 # 0 THEN 1 ELSE 0)
  + (IF (encoding \div 2) % 2 # 0 THEN 1 ELSE 0)
  + (IF (encoding \div 4) % 2 # 0 THEN 1 ELSE 0)

(* parseIntData from integer_info on: w.val is integer_info, least         *)
(* significant byte first; bits its byte 0, offset its byte 2, encoding    *)
(* the low nibble of its byte 3.                                           *)
parseIntInfo(hdr, name, w, bad) ==
  IF EncodingBits(w.val[4] % 16) > 1 THEN Fail(bad, w.st)
  ELSE IF w.val[1] > 128 \/ w.val[1] > hdr.size_or_type * 8
    THEN Fail(bad, w.st)
  ELSE IF w.val[3] + w.val[1] > hdr.size_or_type * 8 THEN Fail(bad, w.st)
  ELSE Ok([kind |-> "Int", name |-> name, size |-> hdr.size_or_type,
           encoding |-> IntEncoding(w.val[4] % 16), offset |-> w.val[3],
           bits |-> w.val[1]], w.st)

parseIntData(fs, l, i, hdr, st) ==
  Bind(BTFError("InvalidIntBTFTypeEncoding",
                FileRange(l, i, st, kBTFTypeHeaderSize + kIntBTFTypeSize)),
       LAMBDA bad :
    IF hdr.kind_flag \/ hdr.vlen # 0 THEN Fail(bad, st)
    ELSE IF hdr.size_or_type \notin {1, 2, 4, 8, 16} THEN Fail(bad, st)
    ELSE Bind(parseString(fs, l, st, hdr.name_off), LAMBDA name_res :
      IF name_res.failed THEN Fail(name_res.err, name_res.st)
      ELSE Bind(ReadU32(fs, l, i, name_res.st), LAMBDA w :
        IF ~w.ok THEN Fail(convertFileReaderError(w.err), w.st)
        ELSE parseIntInfo(hdr, name_res.val, w, bad))))

parsePtrData(fs, l, i, hdr, st) ==
  IF hdr.name_off # 0 \/ hdr.kind_flag \/ hdr.vlen # 0
    THEN Fail(BTFError("InvalidPtrBTFTypeEncoding",
                       FileRange(l, i, st, kBTFTypeHeaderSize)), st)
    ELSE Ok([kind |-> "Ptr", type |-> hdr.size_or_type], st)

parseConstData(fs, l, i, hdr, st) ==
  IF hdr.name_off # 0 \/ hdr.kind_flag \/ hdr.vlen # 0
    THEN Fail(BTFError("InvalidPtrBTFTypeEncoding",
                       FileRange(l, i, st, kBTFTypeHeaderSize)), st)
    ELSE Ok([kind |-> "Const", type |-> hdr.size_or_type], st)

parseVolatileData(fs, l, i, hdr, st) ==
  IF hdr.name_off # 0 \/ hdr.kind_flag \/ hdr.vlen # 0
    THEN Fail(BTFError("InvalidVolatileBTFTypeEncoding",
                       FileRange(l, i, st, kBTFTypeHeaderSize)), st)
    ELSE Ok([kind |-> "Volatile", type |-> hdr.size_or_type], st)

parseRestrictData(fs, l, i, hdr, st) ==
  IF hdr.name_off # 0 \/ hdr.kind_flag \/ hdr.vlen # 0
    THEN Fail(BTFError("InvalidRestrictBTFTypeEncoding",
                       FileRange(l, i, st, kBTFTypeHeaderSize)), st)
    ELSE Ok([kind |-> "Restrict", type |-> hdr.size_or_type], st)

parseArrayData(fs, l, i, hdr, st) ==
  IF hdr.name_off # 0 \/ hdr.kind_flag \/ hdr.vlen # 0 \/ hdr.size_or_type # 0
    THEN Fail(BTFError("InvalidArrayBTFTypeEncoding",
                       FileRange(l, i, st,
                                 kBTFTypeHeaderSize + kArrayBTFTypeSize)), st)
  ELSE Bind(ReadU32(fs, l, i, st), LAMBDA a :
    IF ~a.ok THEN Fail(convertFileReaderError(a.err), a.st)
    ELSE Bind(ReadU32(fs, l, i, a.st), LAMBDA b :
      IF ~b.ok THEN Fail(convertFileReaderError(b.err), b.st)
      ELSE Bind(ReadU32(fs, l, i, b.st), LAMBDA c :
        IF ~c.ok THEN Fail(convertFileReaderError(c.err), c.st)
        ELSE Ok([kind |-> "Array", type |-> Num(a.val),
                 index_type |-> Num(b.val), nelems |-> Num(c.val)], c.st))))

parseTypedefData(fs, l, i, hdr, st) ==
  IF hdr.name_off = 0 \/ hdr.kind_flag \/ hdr.vlen # 0
    THEN Fail(BTFError("InvalidTypedefBTFTypeEncoding",
                       FileRange(l, i, st, kBTFTypeHeaderSize)), st)
  ELSE Bind(parseString(fs, l, st, hdr.name_off), LAMBDA name_res :
    IF name_res.failed THEN Fail(name_res.err, name_res.st)
    ELSE Ok([kind |-> "Typedef", name |-> name_res.val,
             type |-> hdr.size_or_type], name_res.st))

parseFwdData(fs, l, i, hdr, st) ==
  IF hdr.name_off = 0 \/ hdr.vlen # 0 \/ hdr.size_or_type # 0
    THEN Fail(BTFError("InvalidFwdBTFTypeEncoding",
                       FileRange(l, i, st, kBTFTypeHeaderSize)), st)
  ELSE Bind(parseString(fs, l, st, hdr.name_off), LAMBDA name_res :
    IF name_res.failed THEN Fail(name_res.err, name_res.st)
    ELSE Ok([kind |-> "Fwd", name |-> name_res.val,
             is_union |-> hdr.kind_flag], name_res.st))

parseFuncData(fs, l, i, hdr, st) ==
  IF hdr.name_off = 0 \/ hdr.kind_flag \/ hdr.vlen >= 3
    THEN Fail(BTFError("InvalidFuncBTFTypeEncoding",
                       FileRange(l, i, st, kBTFTypeHeaderSize)), st)
  ELSE Bind(parseString(fs, l, st, hdr.name_off), LAMBDA name_res :
    IF name_res.failed THEN Fail(name_res.err, name_res.st)
    ELSE Ok([kind |-> "Func", name |-> name_res.val,
             type |-> hdr.size_or_type, linkage |-> hdr.vlen], name_res.st))

parseFloatData(fs, l, i, hdr, st) ==
  IF hdr.name_off = 0 \/ hdr.kind_flag \/ hdr.vlen # 0
     \/ hdr.size_or_type \notin {2, 4, 8, 12, 16}
    THEN Fail(BTFError("InvalidFloatBTFTypeEncoding",
                       FileRange(l, i, st, kBTFTypeHeaderSize)), st)
  ELSE Bind(parseString(fs, l, st, hdr.name_off), LAMBDA name_res :
    IF name_res.failed THEN Fail(name_res.err, name_res.st)
    ELSE Ok([kind |-> "Float", name |-> name_res.val,
             size |-> hdr.size_or_type], name_res.st))

parseVarData(fs, l, i, hdr, st) ==
  IF hdr.name_off = 0 \/ hdr.kind_flag \/ hdr.vlen # 0
    THEN Fail(BTFError("InvalidVarBTFTypeEncoding",
                       FileRange(l, i, st, kBTFTypeHeaderSize + kVarDataSize)),
              st)
  ELSE Bind(parseString(fs, l, st, hdr.name_off), LAMBDA name_res :
    IF name_res.failed THEN Fail(name_res.err, name_res.st)
    ELSE Bind(ReadU32(fs, l, i, name_res.st), LAMBDA w :
      IF ~w.ok THEN Fail(convertFileReaderError(w.err), w.st)
      ELSE Ok([kind |-> "Var", name |-> name_res.val,
               type |-> hdr.size_or_type, linkage |-> Num(w.val)], w.st)))

(* static_cast<std::int32_t> of a word. *)
Int32(w) ==
  IF w[4] >= 128
    THEN Num(<<w[1], w[2], w[3], w[4] - 128>>) - 2147483647 - 1
    ELSE Num(w)

(* The name lookups guarded by `if (name_off != 0)`: opt_name stays empty *)
(* when the offset is 0.  [failed, err, val (an optional), st].           *)
parseOptString(fs, l, st, offset) ==
  IF offset # 0
    THEN Bind(parseString(fs, l, st, offset), LAMBDA r :
           [failed |-> r.failed, err |-> r.err, val |-> Some(r.val),
            st |-> r.st])
    ELSE [failed |-> FALSE, err |-> NoError, val |-> None, st |-> st]

(* parseEnumData, the value loop from value n on. *)
RECURSIVE parseEnumValues(_, _, _, _, _, _, _, _)
parseEnumValues(fs, l, i, hdr, st, n, output, bad) ==
  IF ~(n < hdr.vlen) THEN Ok(output, st)
  ELSE Bind(ReadU32(fs, l, i, st), LAMBDA a :
    IF ~a.ok THEN Fail(convertFileReaderError(a.err), a.st)
    ELSE IF Num(a.val) = 0 THEN Fail(bad, a.st)
    ELSE Bind(parseString(fs, l, a.st, Num(a.val)), LAMBDA value_name_res :
      IF value_name_res.failed
        THEN Fail(value_name_res.err, value_name_res.st)
      ELSE Bind(ReadU32(fs, l, i, value_name_res.st), LAMBDA b :
        IF ~b.ok THEN Fail(convertFileReaderError(b.err), b.st)
        ELSE parseEnumValues(fs, l, i, hdr, b.st, n + 1,
               [output EXCEPT !.value_list =
                  Append(@, [name |-> value_name_res.val,
                             val |-> Int32(b.val)])],
               bad))))

parseEnumData(fs, l, i, hdr, st) ==
  Bind(BTFError("InvalidEnumBTFTypeEncoding",
                FileRange(l, i, st, kBTFTypeHeaderSize
                                    + hdr.vlen * kEnumValueBTFTypeSize)),
       LAMBDA bad :
    IF hdr.kind_flag THEN Fail(bad, st)
    ELSE IF hdr.size_or_type \notin {1, 2, 4, 8} THEN Fail(bad, st)
    ELSE Bind(parseOptString(fs, l, st, hdr.name_off), LAMBDA name_res :
      IF name_res.failed THEN Fail(name_res.err, name_res.st)
      ELSE parseEnumValues(fs, l, i, hdr, name_res.st, 0,
             [kind |-> "Enum", opt_name |-> name_res.val,
              size |-> hdr.size_or_type, value_list |-> <<>>],
             bad)))

(* parseFuncProtoData, the parameter loop from parameter n on. *)
RECURSIVE parseFuncProtoParams(_, _, _, _, _, _, _)
parseFuncProtoParams(fs, l, i, hdr, st, n, param_list) ==
  IF ~(n < hdr.vlen) THEN Ok(param_list, st)
  ELSE Bind(ReadU32(fs, l, i, st), LAMBDA a :
    IF ~a.ok THEN Fail(convertFileReaderError(a.err), a.st)
    ELSE Bind(parseOptString(fs, l, a.st, Num(a.val)),
              LAMBDA param_name_res :
      IF param_name_res.failed
        THEN Fail(param_name_res.err, param_name_res.st)
      ELSE Bind(ReadU32(fs, l, i, param_name_res.st), LAMBDA b :
        IF ~b.ok THEN Fail(convertFileReaderError(b.err), b.st)
        ELSE parseFuncProtoParams(fs, l, i, hdr, b.st, n + 1,
               Append(param_list, [opt_name |-> param_name_res.val,
                                   type |-> Num(b.val)])))))

(* parseFuncProtoData, after the loop: the variadic marker. *)
VariadicRule(return_type, param_list) ==
  IF param_list # <<>> /\ ~param_list[Len(param_list)].opt_name.has
     /\ param_list[Len(param_list)].type = 0
    THEN [kind |-> "FuncProto", return_type |-> return_type,
          param_list |-> SubSeq(param_list, 1, Len(param_list) - 1),
          is_variadic |-> TRUE]
    ELSE [kind |-> "FuncProto", return_type |-> return_type,
          param_list |-> param_list, is_variadic |-> FALSE]

parseFuncProtoData(fs, l, i, hdr, st) ==
  IF hdr.name_off # 0 \/ hdr.kind_flag
    THEN Fail(BTFError("InvalidFuncProtoBTFTypeEncoding",
                       FileRange(l, i, st, kBTFTypeHeaderSize)), st)
  ELSE Bind(parseFuncProtoParams(fs, l, i, hdr, st, 0, <<>>), LAMBDA ps :
    IF ps.failed THEN ps
    ELSE Ok(VariadicRule(hdr.size_or_type, ps.type), ps.st))

(* parseStructOrUnionData: the split of a member's offset word. *)
MemberOffset(kind_flag, w) ==
  IF kind_flag
    THEN [offset |-> w[1] + 256 * w[2] + 65536 * w[3],
          opt_bitfield_size |-> [has |-> TRUE, val |-> w[4]]]
    ELSE [offset |-> Num(w),
          opt_bitfield_size |-> [has |-> FALSE, val |-> 0]]

Member(opt_name, type, o) ==
  [opt_name |-> opt_name, type |-> type, offset |-> o.offset,
   opt_bitfield_size |-> o.opt_bitfield_size]

(* parseStructOrUnionData, the member loop from member n on. *)
RECURSIVE parseMembers(_, _, _, _, _, _, _)
parseMembers(fs, l, i, hdr, st, n, member_list) ==
  IF ~(n < hdr.vlen) THEN Ok(member_list, st)
  ELSE Bind(ReadU32(fs, l, i, st), LAMBDA a :
    IF ~a.ok THEN Fail(convertFileReaderError(a.err), a.st)
    ELSE Bind(parseOptString(fs, l, a.st, Num(a.val)),
              LAMBDA member_name_res :
      IF member_name_res.failed
        THEN Fail(member_name_res.err, member_name_res.st)
      ELSE Bind(ReadU32(fs, l, i, member_name_res.st), LAMBDA b :
        IF ~b.ok THEN Fail(convertFileReaderError(b.err), b.st)
        ELSE Bind(ReadU32(fs, l, i, b.st), LAMBDA c :
          IF ~c.ok THEN Fail(convertFileReaderError(c.err), c.st)
          ELSE parseMembers(fs, l, i, hdr, c.st, n + 1,
                 Append(member_list,
                        Member(member_name_res.val, Num(b.val),
                               MemberOffset(hdr.kind_flag, c.val))))))))

parseStructOrUnionData(kind, fs, l, i, hdr, st) ==
  Bind(parseOptString(fs, l, st, hdr.name_off), LAMBDA name_res :
    IF name_res.failed THEN Fail(name_res.err, name_res.st)
    ELSE Bind(parseMembers(fs, l, i, hdr, name_res.st, 0, <<>>), LAMBDA ms :
      IF ms.failed THEN ms
      ELSE Ok([kind |-> kind, opt_name |-> name_res.val,
               size |-> hdr.size_or_type, member_list |-> ms.type], ms.st)))

parseStructData(fs, l, i, hdr, st) ==
  parseStructOrUnionData("Struct", fs, l, i, hdr, st)

parseUnionData(fs, l, i, hdr, st) ==
  parseStructOrUnionData("Union", fs, l, i, hdr, st)

(* parseDataSecData, the variable loop from variable n on. *)
RECURSIVE parseVariables(_, _, _, _, _, _, _)
parseVariables(fs, l, i, hdr, st, n, variable_list) ==
  IF ~(n < hdr.vlen) THEN Ok(variable_list, st)
  ELSE Bind(ReadU32(fs, l, i, st), LAMBDA a :
    IF ~a.ok THEN Fail(convertFileReaderError(a.err), a.st)
    ELSE Bind(ReadU32(fs, l, i, a.st), LAMBDA b :
      IF ~b.ok THEN Fail(convertFileReaderError(b.err), b.st)
      ELSE Bind(ReadU32(fs, l, i, b.st), LAMBDA c :
        IF ~c.ok THEN Fail(convertFileReaderError(c.err), c.st)
        ELSE parseVariables(fs, l, i, hdr, c.st, n + 1,
               Append(variable_list,
                      [type |-> Num(a.val), offset |-> Num(b.val),
                       size |-> Num(c.val)])))))

parseDataSecData(fs, l, i, hdr, st) ==
  IF hdr.name_off = 0 \/ hdr.kind_flag
    THEN Fail(BTFError("InvalidDataSecBTFTypeEncoding",
                       FileRange(l, i, st, kBTFTypeHeaderSize
                                           + hdr.vlen * kVarSecInfoSize)), st)
  ELSE Bind(parseString(fs, l, st, hdr.name_off), LAMBDA name_res :
    IF name_res.failed THEN Fail(name_res.err, name_res.st)
    ELSE Bind(parseVariables(fs, l, i, hdr, name_res.st, 0, <<>>), LAMBDA vs :
      IF vs.failed THEN vs
      ELSE Ok([kind |-> "DataSec", name |-> name_res.val,
               size |-> hdr.size_or_type, variable_list |-> vs.type], vs.st)))

(* kBTFParserMap: the kinds with a parser, and the call through the map. *)
kBTFParserMap == {1, 2, 3, 4, 5, 6, 7, 8, 9, 10, 11, 12, 13, 14, 15, 16}

Parser(kind, fs, l, i, hdr, st) ==
  CASE kind = 1 -> parseIntData(fs, l, i, hdr, st)
    [] kind = 2 -> parsePtrData(fs, l, i, hdr, st)
    [] kind = 3 -> parseArrayData(fs, l, i, hdr, st)
    [] kind = 4 -> parseStructData(fs, l, i, hdr, st)
    [] kind = 5 -> parseUnionData(fs, l, i, hdr, st)
    [] kind = 6 -> parseEnumData(fs, l, i, hdr, st)
    [] kind = 7 -> parseFwdData(fs, l, i, hdr, st)
    [] kind = 8 -> parseTypedefData(fs, l, i, hdr, st)
    [] kind = 9 -> parseVolatileData(fs, l, i, hdr, st)
    [] kind = 10 -> parseConstData(fs, l, i, hdr, st)
    [] kind = 11 -> parseRestrictData(fs, l, i, hdr, st)
    [] kind = 12 -> parseFuncData(fs, l, i, hdr, st)
    [] kind = 13 -> parseFuncProtoData(fs, l, i, hdr, st)
    [] kind = 14 -> parseVarData(fs, l, i, hdr, st)
    [] kind = 15 -> parseDataSecData(fs, l, i, hdr, st)
    [] kind = 16 -> parseFloatData(fs, l, i, hdr, st)

KindFail(code, cur, h) ==
  [failed |-> TRUE, err |-> BTFError(code, Range(cur, kBTFTypeHeaderSize)),
   type |-> NoType, st |-> h.st, step |-> "kind", kind |-> h.hdr.kind]

(* One pass of the record loop of parseTypeSections, from the header read  *)
(* to the parser's result: [failed, err, type, st, step, kind].            *)
ParseOne(fs, l, i, st) ==
  Bind(parseTypeHeader(fs, l, i, st), LAMBDA h :
    IF h.failed
      THEN [failed |-> TRUE, err |-> h.err, type |-> NoType, st |-> h.st,
            step |-> "header", kind |-> 0]
    ELSE IF h.hdr.kind > kMaxKind
      THEN KindFail("InvalidBTFKind", Offset(l, i, st), h)
    ELSE IF h.hdr.kind \notin kBTFParserMap
      THEN KindFail("UnsupportedBTFKind", Offset(l, i, st), h)
    ELSE Bind(Parser(h.hdr.kind, fs, l, i, h.hdr, h.st), LAMBDA p :
      [failed |-> p.failed, err |-> p.err, type |-> p.type, st |-> p.st,
       step |-> IF p.failed THEN "parser" ELSE "", kind |-> h.hdr.kind]))

----------------------------------------------------------------------------
----------------------------------------------------------------------------
(* BTF::BTF, one path of path_list: open, detectEndianness, setEndianness, *)
(* readBTFHeader.                                                          *)

(* IFileReader::open: [failed, err (FileReaderError)]. *)
open(file) ==
  IF file.exists
    THEN [failed |-> FALSE, err |-> NoFRError]
    ELSE [failed |-> TRUE, err |-> FileReaderError("FileNotFound", NoRange)]

kLittleEndianMagicValue == <<159, 235>>   \* 0xEB9F, least significant first

kBigEndianMagicValue == <<235, 159>>      \* 0x9FEB, least significant first

EndianFail(e, pos) ==
  [failed |-> TRUE, err |-> e, little_endian |-> FALSE, pos |-> pos]

(* detectEndianness with the byte-swapped marker taken for the             *)
(* little-endian one.                                                      *)
detectEndiannessLittle(bytes, pos) ==
  Bind(seek(bytes, pos, 0), LAMBDA s :
    IF ~s.ok THEN EndianFail(convertFileReaderError(s.err), s.pos)
    ELSE Bind(u16(bytes, s.pos, TRUE), LAMBDA magic :
      IF ~magic.ok
        THEN EndianFail(convertFileReaderError(magic.err), magic.pos)
      ELSE IF magic.val \in {kLittleEndianMagicValue, kBigEndianMagicValue}
        THEN [failed |-> FALSE, err |-> NoError, little_endian |-> TRUE,
              pos |-> magic.pos]
      ELSE EndianFail(BTFError("InvalidMagicValue", NoRange), magic.pos)))

(* detectEndianness: [failed, err, little_endian, pos]. *)
detectEndianness(bytes, pos) ==
  Bind(seek(bytes, pos, 0), LAMBDA s :
    IF ~s.ok THEN EndianFail(convertFileReaderError(s.err), s.pos)
    ELSE Bind(u16(bytes, s.pos, TRUE), LAMBDA magic :
      IF ~magic.ok
        THEN EndianFail(convertFileReaderError(magic.err), magic.pos)
      ELSE IF magic.val = kLittleEndianMagicValue
        THEN [failed |-> FALSE, err |-> NoError, little_endian |-> TRUE,
              pos |-> magic.pos]
      ELSE IF magic.val = kBigEndianMagicValue
        THEN [failed |-> FALSE, err |-> NoError, little_endian |-> FALSE,
              pos |-> magic.pos]
      ELSE EndianFail(BTFError("InvalidMagicValue", NoRange), magic.pos)))

(* Reads of the given sizes one after the other: [ok, val (one value per   *)
(* read), pos, err].                                                       *)
RECURSIVE ReadFields(_, _, _, _, _)
ReadFields(bytes, pos, little_endian, sizes, acc) ==
  IF sizes = <<>>
    THEN [ok |-> TRUE, val |-> acc, pos |-> pos, err |-> NoFRError]
    ELSE Bind(read(bytes, pos, Head(sizes)), LAMBDA r :
      IF ~r.ok
        THEN [ok |-> FALSE, val |-> acc, pos |-> r.pos, err |-> r.err]
        ELSE ReadFields(bytes, r.pos, little_endian, Tail(sizes),
               Append(acc, IF little_endian THEN r.val ELSE Rev(r.val))))

NoBTFHeader == [magic |-> <<0, 0>>, version |-> 0, flags |-> 0, hdr_len |-> 0,
                type_off |-> 0, type_len |-> 0, str_off |-> 0, str_len |-> 0]

BTFHeaderFail(e, pos) ==
  [failed |-> TRUE, err |-> convertFileReaderError(e),
   btf_header |-> NoBTFHeader, pos |-> pos]

(* readBTFHeader: [failed, err, btf_header, pos]. *)
readBTFHeader(bytes, pos, little_endian) ==
  Bind(seek(bytes, pos, 0), LAMBDA s :
    IF ~s.ok THEN BTFHeaderFail(s.err, s.pos)
    ELSE Bind(ReadFields(bytes, s.pos, little_endian,
                         <<2, 1, 1, 4, 4, 4, 4, 4>>, <<>>),
              LAMBDA f :
      IF ~f.ok THEN BTFHeaderFail(f.err, f.pos)
      ELSE [failed |-> FALSE, err |-> NoError,
            btf_header |-> [magic |-> f.val[1], version |-> f.val[2][1],
                            flags |-> f.val[3][1], hdr_len |-> Num(f.val[4]),
                            type_off |-> Num(f.val[5]),
                            type_len |-> Num(f.val[6]),
                            str_off |-> Num(f.val[7]),
                            str_len |-> Num(f.val[8])],
            pos |-> f.pos]))

OpenFail(e, step, k, reader) ==
  [threw |-> TRUE, err |-> e, step |-> step,
   btf_file |-> [btf_header |-> NoBTFHeader, file |-> k], reader |-> reader]

(* The body of the path loop of BTF::BTF for one file: [threw, err, step,  *)
(* btf_file, reader].                                                      *)
OpenOne(file, k, reader) ==
  Bind(open(file), LAMBDA o :
    IF o.failed
      THEN OpenFail(convertFileReaderError(o.err), "open", k, reader)
    ELSE Bind(detectEndianness(file.bytes, reader.file_pos), LAMBDA e :
      IF e.failed
        THEN OpenFail(e.err, "magic", k,
                      [file_pos |-> e.pos, little_endian |-> TRUE])
      ELSE Bind(readBTFHeader(file.bytes, e.pos, e.little_endian), LAMBDA h :
        IF h.failed
          THEN OpenFail(h.err, "btf header", k,
                        [file_pos |-> h.pos,
                         little_endian |-> e.little_endian])
          ELSE [threw |-> FALSE, err |-> NoError, step |-> "",
                btf_file |-> [btf_header |-> h.btf_header, file |-> k],
                reader |-> [file_pos |-> h.pos,
                            little_endian |-> e.little_endian]])))

----------------------------------------------------------------------------
----------------------------------------------------------------------------
(* What parseTypeSections returns, what the constructor does with it, and  *)
(* what createFromPathList hands to the caller.                            *)

(* A parseTypeSections that returns the records decoded before a failure. *)
parseTypeSectionsPartial(failed, err, map) ==
  [failed |-> FALSE, err |-> NoError, map |-> map]

(* parseTypeSections: its Result<BTFTypeMap, BTFError>. *)
parseTypeSectionsResult(failed, err, map) ==
  IF failed THEN [failed |-> TRUE, err |-> err, map |-> <<>>]
            ELSE [failed |-> FALSE, err |-> NoError, map |-> map]

(* BTF::BTF after parseTypeSections: throw, or keep the map. *)
Construct(btf_type_map_res) ==
  IF btf_type_map_res.failed
    THEN [threw |-> TRUE, err |-> btf_type_map_res.err, map |-> <<>>]
    ELSE [threw |-> FALSE, err |-> NoError, map |-> btf_type_map_res.map]

(* createFromPathList: the object (if any) and the Result. *)
createFromPathList(ctor) ==
  IF ctor.threw
    THEN [object |-> FALSE, map |-> <<>>,
          result |-> [state |-> "error", err |-> ctor.err]]
    ELSE [object |-> TRUE, map |-> ctor.map,
          result |-> [state |-> "value", err |-> NoError]]

(* btf_type_map.insert({type_id, type}): an existing key is kept. *)
Insert(map, id, type) ==
  IF id \in DOMAIN map THEN map ELSE map @@ (id :> type)

(* A counter that leaves an id out after each record. *)
NextTypeIdSkipping(id) == id + 2

(* ++type_id *)
NextTypeId(id) == id + 1

----------------------------------------------------------------------------
(* BTFHeaderGenerator.  The Context is a record c with the fields of       *)
(* BTFHeaderGenerator::Context that the fixup steps use.  A name is the    *)
(* sequence of its bytes.  The unordered containers are iterated in the    *)
(* order of a sequence `order` of the ids, which the caller chooses.       *)

TagPrefix == <<116, 97, 103, 45>>                       \* "tag-"

AnonymousEnum ==
  <<65, 110, 111, 110, 121, 109, 111, 117, 115, 69, 110, 117, 109>>

UnsignedChar ==
  <<117, 110, 115, 105, 103, 110, 101, 100, 32, 99, 104, 97, 114>>

VoidName == <<118, 111, 105, 100>>                      \* "void"

BuiltinPrefix == <<95, 95, 98, 117, 105, 108, 116, 105, 110, 95>>

(* std::to_string of an unsigned number. *)
RECURSIVE Decimal(_)
Decimal(n) ==
  IF n < 10 THEN <<48 + n>> ELSE Decimal(n \div 10) \o <<48 + (n % 10)>>

(* The ids of `order` that are in the set s, in the order of `order`. *)
Restrict(order, s) == SelectSeq(order, LAMBDA id : id \in s)

isValidTypeId(map, id) == id \in DOMAIN map

getTypeName(map, id) ==
  IF ~isValidTypeId(map, id) THEN None
  ELSE CASE map[id].kind \in {"Struct", "Union", "Enum"} -> map[id].opt_name
         [] map[id].kind \in {"Typedef", "Fwd", "Int"} -> Some(map[id].name)
         [] map[id].kind = "Void" -> Some(VoidName)
         [] OTHER -> None

(* setTypeName: [ok, map].  The Fwd case sets the name and falls through   *)
(* to the default case, which returns false.                               *)
setTypeName(map, id, name) ==
  IF ~isValidTypeId(map, id) THEN [ok |-> FALSE, map |-> map]
  ELSE CASE map[id].kind \in {"Struct", "Union", "Enum"} ->
              [ok |-> TRUE, map |-> [map EXCEPT ![id].opt_name = Some(name)]]
         [] map[id].kind = "Typedef" ->
              [ok |-> TRUE, map |-> [map EXCEPT ![id].name = name]]
         [] map[id].kind = "Fwd" ->
              [ok |-> FALSE, map |-> [map EXCEPT ![id].name = name]]
         [] OTHER -> [ok |-> FALSE, map |-> map]

NameKey(uses_tag_type, name) ==
  IF uses_tag_type THEN TagPrefix \o name ELSE name

(* adjustTypeNames, one type from `auto key = current_type_name` on; s is  *)
(* [ok, map, visited]: ok FALSE when adjustTypeNames returns false.        *)
adjustVisitedName(s, id, current_type_name, uses_tag_type, can_be_renamed) ==
  IF NameKey(uses_tag_type, current_type_name) \in s.visited
    THEN IF ~can_be_renamed THEN [s EXCEPT !.ok = FALSE]
         ELSE Bind(current_type_name \o <<95>> \o Decimal(id), LAMBDA renamed :
           Bind(setTypeName(s.map, id, renamed), LAMBDA r :
             IF ~r.ok THEN [s EXCEPT !.ok = FALSE]
             ELSE [ok |-> TRUE, map |-> r.map,
                   visited |-> s.visited
                               \cup {NameKey(uses_tag_type, renamed)}]))
    ELSE [s EXCEPT !.visited =
            @ \cup {NameKey(uses_tag_type, current_type_name)}]

(* adjustTypeNames, one type, the `if (can_be_named)` block. *)
adjustNamedType(s, id) ==
  Bind(s.map[id].kind, LAMBDA kind :
    IF kind \notin {"Struct", "Union", "Enum", "Typedef", "Void", "Int"}
      THEN s
    ELSE Bind(getTypeName(s.map, id), LAMBDA opt_current_type_name :
      IF ~opt_current_type_name.has
        THEN IF kind # "Enum" THEN s
             ELSE Bind(setTypeName(s.map, id, AnonymousEnum \o Decimal(id)),
                       LAMBDA r :
               IF ~r.ok THEN [s EXCEPT !.ok = FALSE]
               ELSE adjustVisitedName([s EXCEPT !.map = r.map], id,
                                      AnonymousEnum \o Decimal(id),
                                      TRUE, TRUE))
        ELSE adjustVisitedName(s, id, opt_current_type_name.val,
                               kind \in {"Struct", "Union", "Enum"},
                               kind \in {"Struct", "Union", "Enum",
                                         "Typedef"})))

(* adjustTypeNames, one type, the `if (is_enum)` block. *)
adjustEnumValues(s, id) ==
  IF ~s.ok \/ s.map[id].kind # "Enum" THEN s
  ELSE Bind(s.map[id].value_list, LAMBDA value_list :
    Bind(IF \E n \in 1..Len(value_list) : value_list[n].name \in s.visited
           THEN [n \in 1..Len(value_list) |->
                   [value_list[n] EXCEPT
                      !.name = s.map[id].opt_name.val \o <<95>> \o @]]
           ELSE value_list,
         LAMBDA renamed :
      [ok |-> TRUE,
       map |-> [s.map EXCEPT ![id].value_list = renamed],
       visited |-> s.visited
                   \cup {renamed[n].name : n \in 1..Len(renamed)}]))

(* adjustTypeNames: the loop over btf_type_map from position n of `order`. *)
RECURSIVE adjustTypeNamesLoop(_, _, _)
adjustTypeNamesLoop(s, order, n) ==
  IF ~s.ok \/ n > Len(order) THEN s
  ELSE adjustTypeNamesLoop(adjustEnumValues(adjustNamedType(s, order[n]),
                                            order[n]),
                           order, n + 1)

(* adjustTypeNames: [ok, map, visited]. *)
adjustTypeNames(map, order) ==
  adjustTypeNamesLoop([ok |-> TRUE, map |-> map, visited |-> {}], order, 1)


(* A Context as generate() declares it. *)
NewContext ==
  [btf_type_map |-> <<>>, top_level_type_list |-> {}, fwd_type_map |-> <<>>,
   padding_byte_id |-> 0, highest_btf_type_id |-> 0,
   btf_type_id_generator |-> 0, type_queue |-> <<>>,
   visited_type_list |-> {}, type_tree |-> <<>>, inverse_type_tree |-> <<>>,
   modifier_list |-> <<>>, modifier_list_stack |-> <<>>,
   opt_typedef_name |-> None, typedef_name_stack |-> <<>>,
   opt_variable_name |-> None, variable_name_stack |-> <<>>]

(* saveBTFTypeMap: [ok, c]. *)
saveBTFTypeMap(c, map) ==
  IF Cardinality(DOMAIN map) = 0 THEN [ok |-> FALSE, c |-> c]
  ELSE [ok |-> TRUE, c |-> [c EXCEPT !.btf_type_map = map]]

(* fwd_type_map.insert({name, id}) for the ids of `ids` in turn: a name    *)
(* that is already a key keeps its id.                                     *)
RECURSIVE insertFwdTypes(_, _, _)
insertFwdTypes(fwd_type_map, map, ids) ==
  IF ids = <<>> THEN fwd_type_map
  ELSE insertFwdTypes(
         IF map[Head(ids)].name \in DOMAIN fwd_type_map THEN fwd_type_map
         ELSE fwd_type_map @@ (map[Head(ids)].name :> Head(ids)),
         map, Tail(ids))

MaxOf(s) == IF s = {} THEN 0 ELSE CHOOSE x \in s : \A y \in s : y <= x

scanTypes(c, order) ==
  Bind({id \in DOMAIN c.btf_type_map :
          /\ c.btf_type_map[id].kind \in {"Struct", "Union", "Enum",
                                          "Typedef", "Fwd"}
          /\ getTypeName(c.btf_type_map, id).has},
       LAMBDA top :
    [c EXCEPT
       !.top_level_type_list = top,
       !.fwd_type_map =
          insertFwdTypes(@, c.btf_type_map,
                         Restrict(order,
                                  {id \in top :
                                     c.btf_type_map[id].kind = "Fwd"})),
       !.highest_btf_type_id = MaxOf(DOMAIN c.btf_type_map),
       !.btf_type_id_generator = MaxOf(DOMAIN c.btf_type_map) + 1])

(* The bits of a pointer: 8 times the sizeof of a pointer to void. *)
PointerBits == 64

(* getBTFTypeSize(context, id): [st, val], st "value" or "nullopt", or     *)
(* "recursion" when the call reaches, through Typedef, Volatile, Const and *)
(* Array types, an id it is already computing: the recursion has no end.   *)
(* path holds the ids being computed.                                      *)
RECURSIVE getBTFTypeSize(_, _, _)
getBTFTypeSize(map, type, path) ==
  IF type \notin DOMAIN map THEN [st |-> "nullopt", val |-> 0]
  ELSE IF type \in path THEN [st |-> "recursion", val |-> 0]
  ELSE CASE map[type].kind \in {"Int", "Struct", "Union", "Enum", "Float"} ->
              [st |-> "value", val |-> map[type].size * 8]
         [] map[type].kind = "Ptr" -> [st |-> "value", val |-> PointerBits]
         [] map[type].kind = "Array" ->
              Bind(getBTFTypeSize(map, map[type].type, path \cup {type}),
                   LAMBDA opt_elem_size :
                IF opt_elem_size.st # "value" THEN opt_elem_size
                ELSE [st |-> "value",
                      val |-> opt_elem_size.val * map[type].nelems])
         [] map[type].kind \in {"Typedef", "Volatile", "Const"} ->
              getBTFTypeSize(map, map[type].type, path \cup {type})
         [] OTHER -> [st |-> "nullopt", val |-> 0]

isBitfield(member) ==
  member.opt_bitfield_size.has /\ member.opt_bitfield_size.val # 0

PaddingMember(padding_byte_id, offset, bits) ==
  [opt_name |-> None, type |-> padding_byte_id, offset |-> offset,
   opt_bitfield_size |-> Some(bits)]

(* The members materializeStructPadding pushes for padding_bit_size bits   *)
(* of padding from current_offset on: whole bytes, then the bits left.     *)
Padding(padding_byte_id, at, padding_bit_size) ==
  [i \in 1..(padding_bit_size \div 8) |->
     PaddingMember(padding_byte_id, at + 8 * (i - 1), 8)]
  \o (IF padding_bit_size % 8 # 0
        THEN <<PaddingMember(padding_byte_id,
                             at + 8 * (padding_bit_size \div 8),
                             padding_bit_size % 8)>>
        ELSE <<>>)

(* The members the closing loop of materializeStructPadding pushes when    *)
(* current_offset is past size * 8 by excess bits: the unsigned            *)
(* subtraction wraps to 2^32 - excess, and the loop pushes                 *)
(* (2^32 - excess) / 8 byte members before current_offset, wrapping too,   *)
(* comes to size * 8.  One member with the field wrapped stands for them;  *)
(* a later pass over them brings current_offset to size * 8 as well.       *)
WrappedPadding(padding_byte_id, at, excess) ==
  [opt_name |-> None, type |-> padding_byte_id, offset |-> at,
   opt_bitfield_size |-> Some(8), wrapped |-> excess]

(* materializeStructPadding, the member loop from member n on:             *)
(* [st, member_list, current_offset], st "ok", "false" or "recursion".     *)
RECURSIVE padMembers(_, _, _, _, _, _)
padMembers(map, padding_byte_id, member_list, n, out, at) ==
  IF n > Len(member_list)
    THEN [st |-> "ok", member_list |-> out, current_offset |-> at]
  ELSE IF at > member_list[n].offset
    THEN [st |-> "false", member_list |-> out,
          current_offset |-> at]
  ELSE Bind(out \o Padding(padding_byte_id, at,
                           member_list[n].offset - at)
                \o <<member_list[n]>>,
            LAMBDA pushed :
    IF "wrapped" \in DOMAIN member_list[n]
      THEN padMembers(map, padding_byte_id, member_list, n + 1, pushed,
                      member_list[n].offset - member_list[n].wrapped)
    ELSE IF isBitfield(member_list[n])
      THEN padMembers(map, padding_byte_id, member_list, n + 1, pushed,
                      member_list[n].offset
                      + member_list[n].opt_bitfield_size.val)
    ELSE Bind(getBTFTypeSize(map, member_list[n].type, {}),
              LAMBDA opt_type_size :
      IF opt_type_size.st = "recursion"
        THEN [st |-> "recursion", member_list |-> pushed,
              current_offset |-> member_list[n].offset]
      ELSE IF opt_type_size.st = "nullopt"
        THEN [st |-> "false", member_list |-> pushed,
              current_offset |-> member_list[n].offset]
      ELSE padMembers(map, padding_byte_id, member_list, n + 1, pushed,
                      member_list[n].offset + opt_type_size.val)))

(* materializeStructPadding: [st, member_list], st "ok", "false",          *)
(* "recursion" or "bad_alloc".  allocates tells whether the vector can     *)
(* grow to hold the members of a wrapped padding.                          *)
materializeStructPadding(map, padding_byte_id, struct_btf_type, allocates) ==
  Bind(padMembers(map, padding_byte_id, struct_btf_type.member_list, 1, <<>>,
                  0),
       LAMBDA m :
    IF m.st # "ok" THEN [st |-> m.st, member_list |-> m.member_list]
    ELSE IF m.current_offset > struct_btf_type.size * 8
      THEN IF allocates
             THEN [st |-> "ok",
                   member_list |->
                     Append(m.member_list,
                            WrappedPadding(padding_byte_id, m.current_offset,
                                           m.current_offset
                                           - struct_btf_type.size * 8))]
             ELSE [st |-> "bad_alloc", member_list |-> m.member_list]
    ELSE [st |-> "ok",
          member_list |->
            m.member_list
            \o Padding(padding_byte_id, m.current_offset,
                       struct_btf_type.size * 8 - m.current_offset)])

(* materializePadding, the loop over the Struct types from position n of   *)
(* `order`: [st, c].                                                       *)
RECURSIVE materializePaddingLoop(_, _, _, _)
materializePaddingLoop(c, order, n, allocates) ==
  IF n > Len(order) THEN [st |-> "ok", c |-> c]
  ELSE Bind(materializeStructPadding(c.btf_type_map, c.padding_byte_id,
                                     c.btf_type_map[order[n]], allocates),
            LAMBDA p :
    IF p.st # "ok" THEN [st |-> p.st, c |-> c]
    ELSE materializePaddingLoop(
           [c EXCEPT !.btf_type_map[order[n]].member_list = p.member_list],
           order, n + 1, allocates))

(* generateTypeID *)
generateTypeID(c) == c.btf_type_id_generator + 1

ByteType ==
  [kind |-> "Int", name |-> UnsignedChar, size |-> 1, encoding |-> "None",
   offset |-> 0, bits |-> 8]

(* materializePadding: [st, c]. *)
materializePadding(c, order, allocates) ==
  materializePaddingLoop(
    [c EXCEPT !.btf_type_id_generator = generateTypeID(c),
              !.padding_byte_id = generateTypeID(c),
              !.btf_type_map = Insert(@, generateTypeID(c), ByteType)],
    Restrict(order, {id \in DOMAIN c.btf_type_map :
                       c.btf_type_map[id].kind = "Struct"}),
    1, allocates)


(* getTypeDependencies: [st, list], st "ok", "false", or "out_of_range"    *)
(* when btf_type_map.at() throws.  The call for the anonymous Struct or    *)
(* Union behind a Typedef clears dependency_list before it fills it.       *)
RECURSIVE getTypeDependencies(_, _)
getTypeDependencies(map, id) ==
  IF ~isValidTypeId(map, id) THEN [st |-> "false", list |-> <<>>]
  ELSE CASE map[id].kind \in {"Ptr", "Array", "Volatile", "Const",
                              "Restrict"} ->
              [st |-> "ok", list |-> <<map[id].type>>]
         [] map[id].kind \in {"Struct", "Union"} ->
              [st |-> "ok",
               list |-> [n \in 1..Len(map[id].member_list) |->
                           map[id].member_list[n].type]]
         [] map[id].kind = "Typedef" ->
              IF map[id].type = 0 THEN [st |-> "ok", list |-> <<0>>]
              ELSE IF map[id].type \notin DOMAIN map
                THEN [st |-> "out_of_range", list |-> <<map[id].type>>]
              ELSE IF /\ map[map[id].type].kind \in {"Struct", "Union"}
                      /\ ~map[map[id].type].opt_name.has
                THEN getTypeDependencies(map, map[id].type)
              ELSE [st |-> "ok", list |-> <<map[id].type>>]
         [] map[id].kind = "FuncProto" ->
              [st |-> "ok",
               list |-> <<map[id].return_type>>
                        \o [n \in 1..Len(map[id].param_list) |->
                              map[id].param_list[n].type]]
         [] OTHER -> [st |-> "ok", list |-> <<>>]

isTopLevelTypeDeclaration(c, id) == id \in c.top_level_type_list

(* A link that takes the weak_reference of the last visit. *)
LinkTypeLast(type_tree, parent, id, weak_reference) ==
  [p \in DOMAIN type_tree \cup {parent} |->
     IF p = parent
       THEN [child \in DOMAIN (IF parent \in DOMAIN type_tree
                                 THEN type_tree[parent] ELSE <<>>)
                         \cup {id} |->
               IF child = id THEN weak_reference
               ELSE type_tree[parent][child]]
       ELSE type_tree[p]]

(* The link parent -> id that createTypeTreeHelper records: a new link     *)
(* takes weak_reference, a weak link is upgraded, a strong link stays.     *)
LinkType(type_tree, parent, id, weak_reference) ==
  Bind(IF parent \in DOMAIN type_tree THEN type_tree[parent] ELSE <<>>,
       LAMBDA link_list :
    Bind(IF id \notin DOMAIN link_list
           THEN link_list @@ (id :> weak_reference)
           ELSE IF link_list[id]
             THEN [link_list EXCEPT ![id] = weak_reference]
             ELSE link_list,
         LAMBDA linked :
      [p \in DOMAIN type_tree \cup {parent} |->
         IF p = parent THEN linked ELSE type_tree[p]]))

(* createTypeTreeHelper on s = [st, type_tree, visited_type_list]; st is   *)
(* "ok", "false", "out_of_range" or "logic_error" for the exception        *)
(* thrown, or "recursion" when the call reaches, through types that are    *)
(* not top level declarations, a call with the same id and inside_pointer  *)
(* that has not returned: such calls consult no state, so the recursion    *)
(* has no end.  path holds these calls, as <<id, inside_pointer>>.         *)
RECURSIVE createTypeTreeHelper(_, _, _, _, _, _)
RECURSIVE createTypeTreeEach(_, _, _, _, _, _)
createTypeTreeEach(c, s, inside_pointer, parent, ids, path) ==
  IF s.st # "ok" \/ ids = <<>> THEN s
  ELSE createTypeTreeEach(
         c,
         createTypeTreeHelper(c, s, inside_pointer, parent, Head(ids), path),
         inside_pointer, parent, Tail(ids), path)

(* createTypeTreeHelper from `auto link_list_it` on: id is a top level     *)
(* declaration.                                                            *)
createTypeTreeLink(c, s, inside_pointer, parent, id) ==
  Bind([s EXCEPT !.type_tree =
          LinkType(@, parent, id,
                   inside_pointer
                   /\ c.btf_type_map[id].kind \in {"Struct", "Union"})],
       LAMBDA linked :
    IF id \in s.visited_type_list THEN linked
    ELSE Bind(getTypeDependencies(c.btf_type_map, id), LAMBDA d :
      IF d.st # "ok"
        THEN [linked EXCEPT !.st = d.st,
                            !.visited_type_list = @ \cup {id}]
        ELSE createTypeTreeEach(
               c, [linked EXCEPT !.visited_type_list = @ \cup {id}],
               FALSE, id, d.list, {})))

createTypeTreeHelper(c, s, inside_pointer, parent, id, path) ==
  IF id = 0 THEN s
  ELSE IF id \notin DOMAIN c.btf_type_map
    THEN [s EXCEPT !.st = "out_of_range"]
  ELSE Bind(c.btf_type_map[id], LAMBDA btf_type :
    IF btf_type.kind \in {"Ptr", "Array", "Volatile", "Const", "Restrict",
                          "FuncProto"}
       \/ (~isTopLevelTypeDeclaration(c, id)
           /\ btf_type.kind \in {"Struct", "Union"})
      THEN IF <<id, inside_pointer>> \in path
             THEN [s EXCEPT !.st = "recursion"]
           ELSE IF btf_type.kind = "Ptr"
             THEN createTypeTreeHelper(c, s, TRUE, parent, btf_type.type,
                                       path \cup {<<id, inside_pointer>>})
           ELSE IF btf_type.kind = "FuncProto"
             THEN createTypeTreeEach(
                    c, s, inside_pointer, parent,
                    <<btf_type.return_type>>
                    \o [n \in 1..Len(btf_type.param_list) |->
                          btf_type.param_list[n].type],
                    path \cup {<<id, inside_pointer>>})
           ELSE IF btf_type.kind \in {"Struct", "Union"}
             THEN createTypeTreeEach(
                    c, s, FALSE, parent,
                    getTypeDependencies(c.btf_type_map, id).list,
                    path \cup {<<id, inside_pointer>>})
           ELSE createTypeTreeHelper(c, s, inside_pointer, parent,
                                     btf_type.type,
                                     path \cup {<<id, inside_pointer>>})
    ELSE IF ~isTopLevelTypeDeclaration(c, id)
      THEN IF btf_type.kind \in {"Int", "Float", "Enum"} THEN s
           ELSE [s EXCEPT !.st = "logic_error"]
    ELSE createTypeTreeLink(c, s, inside_pointer, parent, id))

(* createTypeTree, the loop over top_level_type_list from position n of    *)
(* `order`.                                                                *)
RECURSIVE createTypeTreeLoop(_, _, _, _)
createTypeTreeLoop(c, s, order, n) ==
  IF s.st # "ok" \/ n > Len(order) THEN s
  ELSE Bind(getTypeDependencies(c.btf_type_map, order[n]), LAMBDA d :
    IF d.st # "ok" THEN [s EXCEPT !.st = d.st]
    ELSE createTypeTreeLoop(
           c, createTypeTreeEach(c, s, FALSE, order[n], d.list, {}),
           order, n + 1))

(* createTypeTree: [st, c]. *)
createTypeTree(c, order) ==
  Bind(createTypeTreeLoop(
         c, [st |-> "ok", type_tree |-> <<>>, visited_type_list |-> {0}],
         Restrict(order, c.top_level_type_list), 1),
       LAMBDA s :
    [st |-> s.st,
     c |-> [c EXCEPT !.type_tree = s.type_tree,
                     !.visited_type_list = s.visited_type_list]])

(* createInverseTypeTree: for each child the set of its parents. *)
createInverseTypeTree(type_tree) ==
  [child_id \in UNION {DOMAIN type_tree[p] : p \in DOMAIN type_tree} |->
     {parent_id \in DOMAIN type_tree : child_id \in DOMAIN type_tree[parent_id]}]

(* collectChildNodes: the nodes reachable from start, start included. *)
RECURSIVE collectChildNodesFrom(_, _, _)
collectChildNodesFrom(type_tree, next_queue, visited) ==
  IF next_queue \subseteq visited THEN visited
  ELSE collectChildNodesFrom(
         type_tree,
         UNION {DOMAIN type_tree[id] :
                  id \in (next_queue \ visited) \cap DOMAIN type_tree},
         visited \cup next_queue)

collectChildNodes(type_tree, start) ==
  collectChildNodesFrom(type_tree, {start}, {})

(* getOrCreateFwdType: [c, id]. *)
getOrCreateFwdType(c, is_union, name) ==
  IF name \in DOMAIN c.fwd_type_map
    THEN [c |-> c, id |-> c.fwd_type_map[name]]
    ELSE [c |-> [c EXCEPT
                   !.btf_type_id_generator = @ + 1,
                   !.btf_type_map =
                     Insert(@, c.btf_type_id_generator + 1,
                            [kind |-> "Fwd", name |-> name,
                             is_union |-> is_union]),
                   !.fwd_type_map = @ @@ (name :> c.btf_type_id_generator + 1)],
          id |-> c.btf_type_id_generator + 1]

EraseKey(link_list, id) ==
  [k \in DOMAIN link_list \ {id} |-> link_list[k]]

(* unordered_map::insert: an existing key keeps its value. *)
InsertKey(link_list, id, v) ==
  IF id \in DOMAIN link_list THEN link_list ELSE link_list @@ (id :> v)

(* The body of the loop over struct_dependency_list, from position n of    *)
(* typedefs, on x = [st, c, typedef_map, try_again].                       *)
RECURSIVE patchTypedefs(_, _, _, _)
patchTypedefs(x, struct_id, typedefs, n) ==
  IF n > Len(typedefs) THEN x
  ELSE Bind(typedefs[n], LAMBDA typedef_id :
    IF \/ x.c.btf_type_map[typedef_id].kind # "Typedef"
       \/ typedef_id \notin DOMAIN x.c.type_tree
       \/ struct_id \notin DOMAIN x.c.type_tree[typedef_id]
      THEN patchTypedefs(x, struct_id, typedefs, n + 1)
      ELSE Bind(getOrCreateFwdType(
                  x.c, x.c.btf_type_map[struct_id].kind = "Union",
                  getTypeName(x.c.btf_type_map, struct_id).val),
                LAMBDA f :
        patchTypedefs(
          [st |-> x.st,
           c |-> [f.c EXCEPT !.type_tree[typedef_id] =
                    InsertKey(EraseKey(@, struct_id), f.id, FALSE)],
           typedef_map |-> InsertKey(x.typedef_map, typedef_id, struct_id),
           try_again |-> TRUE],
          struct_id, typedefs, n + 1)))

(* The body of the loop over top_level_type_list, from position n. *)
RECURSIVE patchStructs(_, _, _)
patchStructs(x, order, n) ==
  IF x.st # "ok" \/ n > Len(order) THEN x
  ELSE Bind(order[n], LAMBDA struct_id :
    IF \/ x.c.btf_type_map[struct_id].kind \notin {"Struct", "Union"}
       \/ struct_id \notin DOMAIN x.c.type_tree
       \/ DOMAIN x.c.type_tree[struct_id] = {}
      THEN patchStructs(x, order, n + 1)
    ELSE IF ~getTypeName(x.c.btf_type_map, struct_id).has
      THEN [x EXCEPT !.st = "false"]
    ELSE patchStructs(
           patchTypedefs(x, struct_id,
                         Restrict(order, DOMAIN x.c.type_tree[struct_id]), 1),
           order, n + 1))

(* The do-while loop. *)
RECURSIVE patchUntilStable(_, _)
patchUntilStable(x, order) ==
  Bind(patchStructs([x EXCEPT !.try_again = FALSE],
                    Restrict(order, x.c.top_level_type_list), 1),
       LAMBDA y :
    IF y.st = "ok" /\ y.try_again THEN patchUntilStable(y, order) ELSE y)

(* The loop over typedef_user_list, from position n of users, on           *)
(* y = [type_tree, child_node_list_map].                                   *)
RECURSIVE patchUsers(_, _, _, _)
patchUsers(y, typedef_struct_id, users, n) ==
  IF n > Len(users) THEN y
  ELSE IF \/ users[n] = typedef_struct_id
          \/ users[n] \in y.child_node_list_map[typedef_struct_id]
          \/ users[n] \notin DOMAIN y.type_tree
    THEN patchUsers(y, typedef_struct_id, users, n + 1)
    ELSE patchUsers(
           [y EXCEPT !.type_tree[users[n]] =
              InsertKey(EraseKey(@, typedef_struct_id),
                        typedef_struct_id, FALSE)],
           typedef_struct_id, users, n + 1)

(* The loop over typedef_map, from position n of typedefs. *)
RECURSIVE patchTypedefUsers(_, _, _, _, _, _)
patchTypedefUsers(y, typedef_map, inverse_type_tree, typedefs, order, n) ==
  IF n > Len(typedefs) THEN y
  ELSE IF typedefs[n] \notin DOMAIN inverse_type_tree
    THEN patchTypedefUsers(y, typedef_map, inverse_type_tree, typedefs,
                           order, n + 1)
    ELSE Bind(typedef_map[typedefs[n]], LAMBDA typedef_struct_id :
      patchTypedefUsers(
        patchUsers(
          [y EXCEPT !.child_node_list_map =
             InsertKey(@, typedef_struct_id,
                       collectChildNodes(y.type_tree, typedef_struct_id))],
          typedef_struct_id,
          Restrict(order, inverse_type_tree[typedefs[n]]), 1),
        typedef_map, inverse_type_tree, typedefs, order, n + 1))

(* adjustTypedefDependencyLoops: [st, c, typedef_map]. *)
adjustTypedefDependencyLoops(c, order) ==
  Bind(patchUntilStable([st |-> "ok", c |-> c, typedef_map |-> <<>>,
                         try_again |-> FALSE], order),
       LAMBDA x :
    IF x.st # "ok" THEN [st |-> x.st, c |-> x.c, typedef_map |-> x.typedef_map]
    ELSE Bind(createInverseTypeTree(x.c.type_tree), LAMBDA inverse_type_tree :
      Bind(patchTypedefUsers(
             [type_tree |-> x.c.type_tree, child_node_list_map |-> <<>>],
             x.typedef_map, inverse_type_tree,
             Restrict(order, DOMAIN x.typedef_map), order, 1),
           LAMBDA y :
        [st |-> "ok",
         c |-> [x.c EXCEPT !.type_tree = y.type_tree,
                           !.inverse_type_tree = inverse_type_tree],
         typedef_map |-> x.typedef_map])))

(* createTypeQueueHelper on q = [st, c]; st is "ok", "false", or           *)
(* "bad_optional_access" when value() is called on an absent name.         *)
RECURSIVE createTypeQueueHelper(_, _, _)
RECURSIVE createTypeQueueLinks(_, _, _, _, _)
createTypeQueueLinks(q, id, link_list, order, n) ==
  IF q.st # "ok" \/ n > Len(link_list) THEN q
  ELSE Bind(link_list[n], LAMBDA linked_type :
    IF q.c.type_tree[id][linked_type]
      THEN IF q.c.btf_type_map[linked_type].kind \notin {"Struct", "Union"}
             THEN [q EXCEPT !.st = "false"]
           ELSE IF ~getTypeName(q.c.btf_type_map, linked_type).has
             THEN [q EXCEPT !.st = "bad_optional_access"]
           ELSE Bind(getOrCreateFwdType(
                       q.c, q.c.btf_type_map[linked_type].kind = "Union",
                       getTypeName(q.c.btf_type_map, linked_type).val),
                     LAMBDA f :
             createTypeQueueLinks(
               createTypeQueueHelper([q EXCEPT !.c = f.c], f.id, order),
               id, link_list, order, n + 1))
      ELSE createTypeQueueLinks(
             createTypeQueueHelper(q, linked_type, order),
             id, link_list, order, n + 1))

createTypeQueueHelper(q, id, order) ==
  IF q.st # "ok" \/ id = 0 \/ id \in q.c.visited_type_list THEN q
  ELSE Bind(createTypeQueueLinks(
              [q EXCEPT !.c.visited_type_list = @ \cup {id}], id,
              IF id \in DOMAIN q.c.type_tree
                THEN Restrict(order, DOMAIN q.c.type_tree[id]) ELSE <<>>,
              order, 1),
            LAMBDA r :
    IF r.st # "ok" THEN r
    ELSE [r EXCEPT !.c.type_queue = Append(@, id)])

(* createTypeQueue's loop leaving after the first top-level type. *)
createTypeQueueFirst(q, top, order, n) ==
  IF q.st # "ok" \/ n > Len(top) THEN q
  ELSE createTypeQueueHelper(q, top[n], order)

RECURSIVE createTypeQueueLoop(_, _, _, _)
createTypeQueueLoop(q, top, order, n) ==
  IF q.st # "ok" \/ n > Len(top) THEN q
  ELSE createTypeQueueLoop(createTypeQueueHelper(q, top[n], order),
                           top, order, n + 1)

(* createTypeQueue: [st, c]. *)
createTypeQueue(c, order) ==
  createTypeQueueLoop(
    [st |-> "ok",
     c |-> [c EXCEPT !.type_queue = <<>>, !.visited_type_list = {0}]],
    Restrict(order, c.top_level_type_list), order, 1)

(* The text of a header as the sequence of its parts: the pack pragmas,    *)
(* the "BTF Type #id" comment generateTypeHeader writes in front of each   *)
(* type it emits, the identifiers written into identifier slots, and the   *)
(* ";" that ends each queued declaration.  Keywords, modifiers, braces and *)
(* indentation are left out.                                               *)
Token(t, id) == [t |-> t, id |-> id]

(* An identifier written by generateType of the type id; depth, which is   *)
(* not text, is the depth of variable_name_stack when it is written.       *)
NameToken(name, id, depth) ==
  [t |-> "name", id |-> id, name |-> name, depth |-> depth]

HasPrefix(name, prefix) ==
  /\ Len(name) >= Len(prefix)
  /\ SubSeq(name, 1, Len(prefix)) = prefix

(* The emission state of a Context after resetState. *)
resetState(c) ==
  [c EXCEPT !.modifier_list_stack = <<>>, !.modifier_list = <<>>,
            !.typedef_name_stack = <<>>, !.opt_typedef_name = None,
            !.variable_name_stack = <<>>, !.opt_variable_name = None]

(* pushState with the names pushed and also left in place. *)
pushStateKeepingNames(c) ==
  [c EXCEPT !.variable_name_stack = Append(@, c.opt_variable_name),
            !.modifier_list_stack = Append(@, c.modifier_list),
            !.modifier_list = <<>>,
            !.typedef_name_stack = Append(@, c.opt_typedef_name)]

pushState(c) ==
  [c EXCEPT !.variable_name_stack = Append(@, c.opt_variable_name),
            !.opt_variable_name = None,
            !.modifier_list_stack = Append(@, c.modifier_list),
            !.modifier_list = <<>>,
            !.typedef_name_stack = Append(@, c.opt_typedef_name),
            !.opt_typedef_name = None]

Back(stack) == stack[Len(stack)]
PopBack(stack) == SubSeq(stack, 1, Len(stack) - 1)

(* popVariableName, popModifierList, popTypedefName: an empty stack        *)
(* clears the current value.                                               *)
popState(c) ==
  [c EXCEPT
     !.opt_variable_name =
       IF c.variable_name_stack = <<>> THEN None
       ELSE Back(c.variable_name_stack),
     !.variable_name_stack = IF @ = <<>> THEN @ ELSE PopBack(@),
     !.modifier_list =
       IF c.modifier_list_stack = <<>> THEN <<>>
       ELSE Back(c.modifier_list_stack),
     !.modifier_list_stack = IF @ = <<>> THEN @ ELSE PopBack(@),
     !.opt_typedef_name =
       IF c.typedef_name_stack = <<>> THEN None
       ELSE Back(c.typedef_name_stack),
     !.typedef_name_stack = IF @ = <<>> THEN @ ELSE PopBack(@)]

(* The depths of the three stacks. *)
StackDepths(c) ==
  <<Len(c.variable_name_stack), Len(c.typedef_name_stack),
    Len(c.modifier_list_stack)>>

(* The number of modifiers at the back of modifier_list whose kinds are    *)
(* all in kinds.                                                           *)
RECURSIVE TrailingModifiers(_, _, _)
TrailingModifiers(map, modifier_list, kinds) ==
  IF modifier_list = <<>> \/ map[Back(modifier_list)].kind \notin kinds
    THEN 0
  ELSE 1 + TrailingModifiers(map, PopBack(modifier_list), kinds)

DropBack(list, count) == SubSeq(list, 1, Len(list) - count)

generateLeftModifiers(c) ==
  [c EXCEPT !.modifier_list =
     DropBack(@, TrailingModifiers(c.btf_type_map, @,
                                   {"Volatile", "Const", "Restrict"}))]

generateMiddleModifiers(c) ==
  [c EXCEPT !.modifier_list =
     DropBack(@, TrailingModifiers(c.btf_type_map, @, {"Const", "Ptr"}))]

(* generateRightModifiers: the arrays, and the const and volatile behind   *)
(* an array, are written; what is left is written as a comment and the     *)
(* list is cleared.                                                        *)
generateRightModifiers(c) == [c EXCEPT !.modifier_list = <<>>]

(* filterFuncProtoModifiers: the Volatile modifiers are erased. *)
filterFuncProtoModifiers(c) ==
  [c EXCEPT !.modifier_list =
     SelectSeq(@, LAMBDA id : c.btf_type_map[id].kind # "Volatile")]

(* The identifier slot of the type id: takeVariableName and, when it gave  *)
(* nothing, takeTypedefName; g is [st, text, c, paired].                   *)
IdentifierSlot(g, id) ==
  Bind(IF g.c.opt_variable_name.has THEN g.c.opt_variable_name
       ELSE g.c.opt_typedef_name,
       LAMBDA opt_name :
    [g EXCEPT
       !.c.opt_variable_name = None,
       !.c.opt_typedef_name =
         IF g.c.opt_variable_name.has THEN @ ELSE None,
       !.text = IF opt_name.has
                  THEN Append(@, NameToken(opt_name.val, id,
                                           Len(g.c.variable_name_stack)))
                  ELSE @])

(* From generateMiddleModifiers to the end of an overload that writes a    *)
(* type with no body of its own.                                           *)
DeclaratorTail(g, id) ==
  Bind(IdentifierSlot([g EXCEPT !.c = generateMiddleModifiers(@)], id),
       LAMBDA named :
    [named EXCEPT !.c = generateRightModifiers(@)])

(* generateTypeHeader and generateLeftModifiers. *)
DeclaratorHead(g, id) ==
  [g EXCEPT !.text = Append(@, Token("type", id)),
            !.c = generateLeftModifiers(@)]

(* generateType(context, buffer, id, as_type_definition) on g = [st, text, *)
(* c, paired]: st is "ok", "out_of_range" when btf_type_map.at() throws,   *)
(* or "recursion" when the call reaches a call with the same arguments     *)
(* that has not returned; paired, which is not of the code, is FALSE once  *)
(* a call has returned true with a stack of another depth than it was      *)
(* entered with.  No overload returns false: the modifier functions all    *)
(* return true.                                                            *)
RECURSIVE generateType(_, _, _, _)
RECURSIVE generateTypeOf(_, _, _, _)
RECURSIVE generateMembers(_, _, _, _)
RECURSIVE generateParams(_, _, _, _)

(* generateStructOrUnion, the loop over member_list from member n. *)
generateMembers(g, member_list, n, path) ==
  IF g.st # "ok" \/ n > Len(member_list) THEN g
  ELSE generateMembers(
         generateType(
           IF member_list[n].opt_name.has
             THEN [g EXCEPT !.c.opt_variable_name = member_list[n].opt_name]
             ELSE g,
           member_list[n].type, FALSE, path),
         member_list, n + 1, path)

(* generateType of a FuncProto, the loop over param_list from param n. *)
generateParams(g, param_list, n, path) ==
  IF g.st # "ok" \/ n > Len(param_list) THEN g
  ELSE generateParams(generateType(g, param_list[n].type, FALSE, path),
                      param_list, n + 1, path)

(* The overloads of generateType, by the kind of the type. *)
generateTypeOf(g, id, as_type_definition, path) ==
  Bind(g.c.btf_type_map[id], LAMBDA btf_type :
    CASE btf_type.kind \in {"Struct", "Union"} ->
           Bind(DeclaratorHead(g, id), LAMBDA head :
             IF as_type_definition \/ ~btf_type.opt_name.has
               THEN Bind(generateMembers([head EXCEPT !.c = pushState(@)],
                                         btf_type.member_list, 1, path),
                         LAMBDA body :
                      IF body.st # "ok" THEN body
                      ELSE DeclaratorTail([body EXCEPT !.c = popState(@)],
                                          id))
               ELSE DeclaratorTail(head, id))
      [] btf_type.kind = "Typedef" ->
           IF as_type_definition
             THEN Bind(generateType(
                         [g EXCEPT
                            !.text = Append(@, Token("type", id)),
                            !.c.opt_typedef_name = Some(btf_type.name)],
                         btf_type.type, FALSE, path),
                       LAMBDA aliased :
                    IF aliased.st # "ok" THEN aliased
                    ELSE [aliased EXCEPT
                            !.c.opt_typedef_name = None,
                            !.text =
                              IF aliased.c.opt_typedef_name.has
                                THEN Append(@, NameToken(
                                       aliased.c.opt_typedef_name.val, id,
                                       Len(aliased.c.variable_name_stack)))
                                ELSE @])
             ELSE DeclaratorTail(DeclaratorHead(g, id), id)
      [] btf_type.kind = "FuncProto" ->
           Bind(generateType(
                  [g EXCEPT
                     !.text = Append(@, Token("type", id)),
                     !.c = pushState(filterFuncProtoModifiers(@))],
                  btf_type.return_type, FALSE, path),
                LAMBDA returned :
             IF returned.st # "ok" THEN returned
             ELSE Bind(DeclaratorTail(
                         [returned EXCEPT
                            !.c = generateLeftModifiers(popState(@))], id),
                       LAMBDA declared :
               Bind(generateParams([declared EXCEPT !.c = pushState(@)],
                                   btf_type.param_list, 1, path),
                    LAMBDA params :
                 IF params.st # "ok" THEN params
                 ELSE [params EXCEPT !.c = popState(@)])))
      [] btf_type.kind \in {"Ptr", "Array", "Volatile", "Const",
                            "Restrict"} ->
           generateType([g EXCEPT !.c.modifier_list = Append(@, id)],
                        btf_type.type, as_type_definition, path)
      [] btf_type.kind \in {"Enum", "Int", "Float", "Fwd"} ->
           DeclaratorTail(DeclaratorHead(g, id), id)
      [] OTHER -> g)

generateType(g, id, as_type_definition, path) ==
  IF g.st # "ok" THEN g
  ELSE IF id = 0 THEN DeclaratorTail(DeclaratorHead(g, 0), 0)
  ELSE IF id \notin DOMAIN g.c.btf_type_map
    THEN [g EXCEPT !.st = "out_of_range"]
  ELSE IF <<id, as_type_definition>> \in path
    THEN [g EXCEPT !.st = "recursion"]
  ELSE Bind(generateTypeOf(g, id, as_type_definition,
                           path \cup {<<id, as_type_definition>>}),
            LAMBDA r :
    IF r.st # "ok" THEN r
    ELSE [r EXCEPT !.paired = @ /\ StackDepths(r.c) = StackDepths(g.c)])

(* generateHeader, the loop over type_queue from position n. *)
RECURSIVE generateHeaderLoop(_, _)
generateHeaderLoop(g, n) ==
  IF g.st # "ok" \/ n > Len(g.c.type_queue) THEN g
  ELSE Bind(g.c.type_queue[n], LAMBDA id :
    Bind(getTypeName(g.c.btf_type_map, id), LAMBDA opt_name :
      IF ~opt_name.has
        THEN [g EXCEPT !.st = "bad_optional_access", !.c = resetState(@)]
      ELSE IF HasPrefix(opt_name.val, BuiltinPrefix)
        THEN generateHeaderLoop([g EXCEPT !.c = resetState(@)], n + 1)
      ELSE Bind(generateType([g EXCEPT !.c = resetState(@)], id, TRUE, {}),
                LAMBDA r :
        generateHeaderLoop(
          IF r.st # "ok" THEN r
          ELSE [r EXCEPT !.text = Append(@, Token("end", id))],
          n + 1))))

(* generateHeader: [st, text, c, paired]. *)
generateHeader(c) ==
  Bind(generateHeaderLoop([st |-> "ok", text |-> <<Token("push", 0)>>,
                           c |-> c, paired |-> TRUE], 1),
       LAMBDA out :
    IF out.st # "ok" THEN out
    ELSE [out EXCEPT !.text = Append(@, Token("pop", 0))])

----------------------------------------------------------------------------
(* The inputs: blobs as a producer writes them.  A blob is                 *)
(* [exists, magic, strs, tail, recs, cut]: recs its type records           *)
(* [name_off, vlen, kind, kind_flag, size_or_type, data], data the words   *)
(* after the record header; strs its string section; tail what follows     *)
(* the string section in the file; cut the number of bytes missing at the  *)
(* end of the file (0 unless the file is truncated).  The layout is        *)
(* header, type section, string section.                                   *)

RECURSIVE Concat(_)
Concat(ss) == IF ss = <<>> THEN <<>> ELSE Head(ss) \o Concat(Tail(ss))

EncWord(w, little_endian) == IF little_endian THEN w ELSE Rev(w)

InfoWord(r) == <<r.vlen % 256, r.vlen \div 256, 0, r.kind + 128 * r.kind_flag>>

RecBytes(r, little_endian) ==
  EncWord(Word(r.name_off), little_endian)
  \o EncWord(InfoWord(r), little_endian)
  \o EncWord(Word(r.size_or_type), little_endian)
  \o Concat([n \in 1..Len(r.data) |-> EncWord(r.data[n], little_endian)])

TypeBytes(recs, little_endian) ==
  Concat([n \in 1..Len(recs) |-> RecBytes(recs[n], little_endian)])

MagicBytes(magic) ==
  CASE magic = "LE" -> <<159, 235>>
    [] magic = "BE" -> <<235, 159>>
    [] OTHER -> <<0, 0>>

HeaderBytes(b, type_len) ==
  MagicBytes(b.magic) \o <<1, 0>>
  \o Concat([n \in 1..5 |->
               EncWord(Word(<<24, 0, type_len, type_len, Len(b.strs)>>[n]),
                       b.magic # "BE")])

FullBytes(b) ==
  Bind(TypeBytes(b.recs, b.magic # "BE"), LAMBDA types :
    HeaderBytes(b, Len(types)) \o types \o b.strs \o b.tail)

FileBytes(b) ==
  Bind(FullBytes(b), LAMBDA full : SubSeq(full, 1, Len(full) - b.cut))

Blob(strs, recs) ==
  [exists |-> TRUE, magic |-> "LE", strs |-> strs, tail |-> <<>>,
   recs |-> recs, cut |-> 0]

Rec(name_off, vlen, kind, kind_flag, size_or_type, data) ==
  [name_off |-> name_off, vlen |-> vlen, kind |-> kind,
   kind_flag |-> kind_flag, size_or_type |-> size_or_type, data |-> data]

(* The string section of the decode family: "", "a", "". *)
Strs == <<0, 97, 0>>

(* The records of the decode family. *)
IntRec == Rec(1, 0, 1, 0, 4, <<(<<32, 0, 0, 1>>)>>)
PtrRec == Rec(0, 0, 2, 0, 2, <<>>)
BadConstRec == Rec(1, 0, 10, 0, 1, <<>>)
TypedefRec == Rec(4, 0, 8, 0, 1, <<>>)
BadKindRec == Rec(0, 0, 17, 0, 0, <<>>)
StructRec == Rec(1, 1, 4, 0, 4, <<Word(1), Word(1), Word(0)>>)

Vocab == <<IntRec, PtrRec, BadConstRec, TypedefRec, BadKindRec, StructRec>>

(* The sequences of at most n indices into Vocab. *)
RecSeqs(n) == UNION {[1..m -> 1..Len(Vocab)] : m \in 0..n}

(* The lists of k such sequences with at most n indices in all. *)
RECURSIVE RecLists(_, _)
RecLists(k, n) ==
  IF k = 0 THEN {<<>>}
  ELSE UNION {{<<rs>> \o rest : rest \in RecLists(k - 1, n - Len(rs))} :
              rs \in RecSeqs(n)}

(* The well-formed little-endian blobs holding the records rl names. *)
CleanInput(rl) ==
  [j \in 1..Len(rl) |->
     Blob(Strs, [n \in 1..Len(rl[j]) |-> Vocab[rl[j][n]]])]

(* Blobs that are big-endian, missing, of a wrong magic, or truncated. *)
Variants ==
  {[Blob(Strs, <<IntRec, PtrRec>>) EXCEPT !.magic = m] : m \in {"LE", "BE", "bad"}}
  \cup {[Blob(Strs, <<IntRec, PtrRec>>) EXCEPT !.exists = FALSE]}
  \cup {[Blob(Strs, <<IntRec, PtrRec>>) EXCEPT !.cut = n] :
        n \in {10, 17, 25, 31, 45, 54, 55}}

VariantInputs == UNION {[1..k -> Variants] : k \in 1..MaxBlobs}

(* The string family: blobs whose string sections have every length from  *)
(* 1 to MaxStrLen, one Int record in the first blob whose name_off is the  *)
(* offset looked up.  The string section of blob j of length n holds the   *)
(* bytes 10*j+1, 10*j+2, ... and a closing 0.                              *)
StrSection(j, n) == [r \in 1..n |-> IF r = n THEN 0 ELSE 10 * j + r]

RECURSIVE Sum(_)
Sum(s) == IF s = <<>> THEN 0 ELSE Head(s) + Sum(Tail(s))

StrBlob(j, n, tail, offset) ==
  [Blob(StrSection(j, n),
        IF j = 1 THEN <<Rec(offset, 0, 1, 0, 4, <<(<<32, 0, 0, 0>>)>>)>>
                 ELSE <<>>)
   EXCEPT !.tail = tail]

StrInputs ==
  UNION {UNION {{[j \in 1..k |-> StrBlob(j, lens[j], tail, offset)] :
                   tail \in {<<>>, <<120, 0>>},
                   offset \in 0..(Sum(lens) + 2)} :
                lens \in [1..k -> 1..MaxStrLen]} :
         k \in 1..MaxStrBlobs}

(* The Int family: one blob, one Int record. *)
IntInputs ==
  {<<[Blob(Strs, <<Rec(name_off, fv[2], 1, fv[1], size,
                       <<(<<bits, 0, offset, encoding>>)>>)>>)
      EXCEPT !.cut = cut]>> :
     name_off \in {0, 1, 5},
     fv \in {<<0, 0>>, <<1, 0>>, <<0, 1>>},
     size \in {0, 1, 4, 16, 17},
     bits \in {0, 8, 32, 128, 129},
     offset \in {0, 8, 121},
     encoding \in {0, 1, 2, 3, 4, 5, 8},
     cut \in {0, 5}}

(* The FuncProto family: one blob, one FuncProto record with up to         *)
(* MaxParams parameters, each a name offset and a type.                    *)
ParamWords == {<<0, 0>>, <<1, 1>>, <<2, 0>>, <<0, 1>>}

ParamData(ps) == Concat([n \in 1..Len(ps) |-> <<Word(ps[n][1]), Word(ps[n][2])>>])

ProtoInputs ==
  UNION {{<<Blob(Strs, <<Rec(0, n, 13, kind_flag, 1, ParamData(ps))>>)>> :
            ps \in [1..n -> ParamWords], kind_flag \in {0, 1}} :
         n \in 0..MaxParams}

(* The Struct family: one blob, one Struct or Union record with up to      *)
(* MaxMembers members named "a" of type 1, each with an offset word.       *)
OffsetWords ==
  {Word(0), Word(8), Word(32), <<0, 0, 0, 8>>, <<28, 0, 0, 8>>}

MemberData(ws) == Concat([n \in 1..Len(ws) |-> <<Word(1), Word(1), ws[n]>>])

StructInputs ==
  UNION {{<<Blob(Strs, <<Rec(1, n, kind, kind_flag, size, MemberData(ws))>>)>> :
            ws \in [1..n -> OffsetWords], kind \in {4, 5},
            kind_flag \in {0, 1}, size \in {1, 4}} :
         n \in 0..MaxMembers}

----------------------------------------------------------------------------
(* createFromPathList as a state machine. *)

DecodeInit(in) ==
  /\ input = in
  /\ files = [k \in 1..Len(input) |->
                [exists |-> input[k].exists, bytes |-> FileBytes(input[k])]]
  /\ pc = IF Len(input) = 0 THEN "section" ELSE "open"
  /\ path_idx = 1
  /\ btf_file_list = <<>>
  /\ readers = [k \in 1..Len(input) |->
                  [file_pos |-> 0, little_endian |-> TRUE]]
  /\ sect = 1
  /\ sect_end = 0
  /\ current_offset = 0
  /\ type_id = 1
  /\ btf_type_map = <<>>
  /\ d_btf_type_map = <<>>
  /\ object = FALSE
  /\ result = [state |-> "none", err |-> NoError]
  /\ str_log = <<>>
  /\ last_kind = 0
  /\ failed_step = ""
  /\ dumped = <<>>

(* The generator before generate() is called; h is the caller's string. *)
GenIdle(h) ==
  /\ gen_pc = "idle"
  /\ context = NewContext
  /\ header = h
  /\ gen_result = "none"
  /\ gen_run = 1
  /\ first_map = <<>>
  /\ created_tree = <<>>

(* LLVMBridge: the import of a type map into an LLVM module.  An LLVM type *)
(* is a value but for a struct made by StructType::create, which is the    *)
(* object made for one BTF id and is opaque until setBody: has_body holds  *)
(* the ids whose struct has a body.  What a body lists is not kept.        *)

VoidTy == [t |-> "void"]
IntegerTy(bits) == [t |-> "int", bits |-> bits]
FloatingTy(bits) == [t |-> "float", bits |-> bits]
PointerTo(base) == [t |-> "ptr", to |-> base]
ArrayTy(elem, nelems) == [t |-> "array", elem |-> elem, nelems |-> nelems]
CreatedStruct(id) == [t |-> "struct", id |-> id]
EmptyLiteralStruct == [t |-> "literal"]
FunctionTy(ret, params, is_variadic) ==
  [t |-> "func", ret |-> ret, params |-> params, is_variadic |-> is_variadic]

NewBridgeContext ==
  [btf_type_map |-> <<>>, btf_type_id_to_llvm |-> <<>>,
   llvm_to_btf_type_id |-> <<>>, name_to_btf_type_id |-> <<>>,
   blocked_name_list |-> {}, has_body |-> {}]

(* llvm::Type::isSized. *)
RECURSIVE isSized(_, _)
isSized(c, type) ==
  CASE type.t \in {"int", "float", "ptr", "literal"} -> TRUE
    [] type.t = "array" -> isSized(c, type.elem)
    [] type.t = "struct" -> type.id \in c.has_body
    [] OTHER -> FALSE

(* llvm::StructType::isOpaque of a struct made by StructType::create. *)
isOpaque(c, type) == type.id \notin c.has_body

(* unordered_map::insert: an existing key keeps its value. *)
InsertNew(map, key, value) ==
  IF key \in DOMAIN map THEN map ELSE map @@ (key :> value)

saveType(c, id, type, opt_name) ==
  Bind([c EXCEPT
          !.btf_type_id_to_llvm = InsertNew(@, id, type),
          !.llvm_to_btf_type_id = InsertNew(@, type, id)],
       LAMBDA s :
    IF ~opt_name.has \/ opt_name.val \in s.blocked_name_list THEN s
    ELSE IF opt_name.val \in DOMAIN s.name_to_btf_type_id
      THEN [s EXCEPT !.blocked_name_list = @ \cup {opt_name.val},
                     !.name_to_btf_type_id =
                       [n \in DOMAIN @ \ {opt_name.val} |-> @[n]]]
    ELSE [s EXCEPT !.name_to_btf_type_id = @ @@ (opt_name.val :> id)])

getOrCreateOpaqueStruct(c, id, opt_name) ==
  IF id \in DOMAIN c.btf_type_id_to_llvm THEN c
  ELSE saveType(c, id, CreatedStruct(id), opt_name)

(* An importer's return: the error, "none" for std::nullopt. *)
Imported(c) == [err |-> "none", c |-> c]
NotImported(c, err) == [err |-> err, c |-> c]

SizedInteger(size) == size \in {1, 2, 4, 8, 16}

importIntType(c, id, type) ==
  IF id \in DOMAIN c.btf_type_id_to_llvm THEN Imported(c)
  ELSE IF ~SizedInteger(type.size)
    THEN NotImported(c, "UnsupportedBTFType")
  ELSE Imported(saveType(c, id, IntegerTy(type.size * 8), None))

importFloatType(c, id, type) ==
  IF id \in DOMAIN c.btf_type_id_to_llvm THEN Imported(c)
  ELSE IF type.size \notin {4, 8}
    THEN NotImported(c, "UnsupportedBTFType")
  ELSE Imported(saveType(c, id, FloatingTy(type.size * 8), None))

importFwdType(c, id, type) ==
  IF id \in DOMAIN c.btf_type_id_to_llvm THEN Imported(c)
  ELSE Imported(saveType(c, id, EmptyLiteralStruct, None))

(* importPtrType, importArrayType, importTypedefType, importVolatileType,  *)
(* importRestrictType, importConstType: the type made of the type          *)
(* referenced, saved under opt_name.                                       *)
importReferringType(c, id, type, opt_name) ==
  IF id \in DOMAIN c.btf_type_id_to_llvm THEN Imported(c)
  ELSE IF type.type \notin DOMAIN c.btf_type_id_to_llvm
    THEN NotImported(c, "MissingDependency")
  ELSE Bind(c.btf_type_id_to_llvm[type.type], LAMBDA base :
    Imported(saveType(c, id,
                      CASE type.kind = "Ptr" -> PointerTo(base)
                        [] type.kind = "Array" -> ArrayTy(base, type.nelems)
                        [] OTHER -> base,
                      opt_name)))

importFuncProtoType(c, id, type) ==
  IF id \in DOMAIN c.btf_type_id_to_llvm THEN Imported(c)
  ELSE IF \/ \E n \in 1..Len(type.param_list) :
               type.param_list[n].type \notin DOMAIN c.btf_type_id_to_llvm
          \/ type.return_type \notin DOMAIN c.btf_type_id_to_llvm
    THEN NotImported(c, "MissingDependency")
  ELSE Imported(saveType(
         c, id,
         FunctionTy(c.btf_type_id_to_llvm[type.return_type],
                    [n \in 1..Len(type.param_list) |->
                       c.btf_type_id_to_llvm[type.param_list[n].type]],
                    type.is_variadic),
         None))

(* importStructType and importUnionType: the struct is created, opaque,    *)
(* before the members are looked at, and stays in the context when a       *)
(* member is missing or has no size.                                       *)
importStructType(c, id, type) ==
  Bind(getOrCreateOpaqueStruct(c, id, type.opt_name), LAMBDA s :
    IF ~isOpaque(s, s.btf_type_id_to_llvm[id]) THEN Imported(s)
    ELSE IF \E n \in 1..Len(type.member_list) :
              \/ type.member_list[n].type \notin DOMAIN s.btf_type_id_to_llvm
              \/ ~isSized(s, s.btf_type_id_to_llvm[type.member_list[n].type])
      THEN NotImported(s, "MissingDependency")
    ELSE Imported([s EXCEPT !.has_body = @ \cup {id}]))

importType(c, id, type) ==
  CASE type.kind \in {"Void", "Func", "Var", "DataSec"} -> Imported(c)
    [] type.kind \in {"Int", "Enum"} -> importIntType(c, id, type)
    [] type.kind = "Float" -> importFloatType(c, id, type)
    [] type.kind = "Fwd" -> importFwdType(c, id, type)
    [] type.kind = "Typedef" ->
         importReferringType(c, id, type, Some(type.name))
    [] type.kind \in {"Ptr", "Array", "Volatile", "Restrict", "Const"} ->
         importReferringType(c, id, type, None)
    [] type.kind = "FuncProto" -> importFuncProtoType(c, id, type)
    [] type.kind \in {"Struct", "Union"} -> importStructType(c, id, type)
    [] OTHER -> NotImported(c, "UnsupportedBTFType")

(* importAllTypes before its loop; imported and passes are not of the      *)
(* code: the ids importType has returned no error for, and for each pass   *)
(* ended the number of them it added.                                      *)
NoLoop ==
  [next_id_queue |-> <<>>, current_id_queue |-> <<>>, pos |-> 0,
   updated |-> FALSE, imported |-> {}, passes |-> <<>>, pass_imported |-> 0]

(* No LLVMBridge is being constructed. *)
BridgeIdle ==
  /\ br_pc = "idle"
  /\ br_context = NewBridgeContext
  /\ br_loop = NoLoop
  /\ br_result = "none"

(* No FileReader on its own and no Result in a caller's hands. *)
ReaderIdle ==
  /\ fr_context = [stream |-> [kind |-> "none"], little_endian |-> TRUE]
  /\ fr_op = [op |-> "none"]

ResultIdle ==
  /\ results = <<>>
  /\ res_op = [op |-> "none"]
  /\ use_exceptions = TRUE

LibIdle == ReaderIdle /\ ResultIdle /\ BridgeIdle

InitWith(in) == DecodeInit(in) /\ GenIdle(<<>>) /\ LibIdle

(* createFromPathList returns out. *)
Returns(out, step) ==
  /\ pc' = "done"
  /\ failed_step' = step
  /\ object' = out.object
  /\ d_btf_type_map' = out.map
  /\ result' = out.result

(* The constructor throws e: createFromPathList returns. *)
Throw(e, step) ==
  Returns(createFromPathList([threw |-> TRUE, err |-> e, map |-> <<>>]), step)

(* parseTypeSections returns: the constructor ends, createFromPathList     *)
(* returns.                                                                *)
Return(failed, err, step) ==
  Returns(createFromPathList(
            Construct(parseTypeSectionsResult(failed, err, btf_type_map))),
          step)

(* BTF::BTF: one pass of the loop over path_list. *)
OpenFile ==
  /\ pc = "open"
  /\ path_idx <= Len(files)
  /\ Bind(OpenOne(files[path_idx], path_idx, readers[path_idx]), LAMBDA o :
       /\ readers' = [readers EXCEPT ![path_idx] = o.reader]
       /\ IF o.threw
            THEN /\ Throw(o.err, o.step)
                 /\ UNCHANGED <<path_idx, btf_file_list>>
            ELSE /\ btf_file_list' = Append(btf_file_list, o.btf_file)
                 /\ path_idx' = path_idx + 1
                 /\ pc' = IF path_idx = Len(files) THEN "section" ELSE "open"
                 /\ UNCHANGED <<failed_step, object, d_btf_type_map, result>>)
  /\ UNCHANGED <<input, files, sect, sect_end, current_offset, type_id,
                 btf_type_map, str_log, last_kind, dumped>>
  /\ UNCHANGED <<genvars, libvars>>

(* parseTypeSections: the start of the pass for btf_file sect. *)
BeginSection ==
  /\ pc = "section"
  /\ sect <= Len(btf_file_list)
  /\ Bind(btf_file_list[sect].btf_header.hdr_len
          + btf_file_list[sect].btf_header.type_off,
          LAMBDA type_section_start_offset :
       Bind(seek(files[btf_file_list[sect].file].bytes,
                 readers[btf_file_list[sect].file].file_pos,
                 type_section_start_offset),
            LAMBDA s :
         /\ readers' = [readers EXCEPT
                          ![btf_file_list[sect].file].file_pos = s.pos]
         /\ IF ~s.ok
              THEN /\ Return(TRUE, convertFileReaderError(s.err), "seek")
                   /\ UNCHANGED sect_end
              ELSE /\ sect_end' = type_section_start_offset
                                  + btf_file_list[sect].btf_header.type_len
                   /\ pc' = "record"
                   /\ UNCHANGED <<failed_step, object, d_btf_type_map,
                                  result>>))
  /\ UNCHANGED <<input, files, path_idx, btf_file_list, sect, current_offset,
                 type_id, btf_type_map, str_log, last_kind, dumped>>
  /\ UNCHANGED <<genvars, libvars>>

(* parseTypeSections: one record. *)
ParseType ==
  /\ pc = "record"
  /\ Offset(btf_file_list, sect, [rs |-> readers]) < sect_end
  /\ current_offset' = Offset(btf_file_list, sect, [rs |-> readers])
  /\ Bind(ParseOne(files, btf_file_list, sect,
                   [rs |-> readers, log |-> <<>>]),
          LAMBDA r :
       /\ readers' = r.st.rs
       /\ str_log' = r.st.log
       /\ last_kind' = r.kind
       /\ IF r.failed
            THEN /\ Return(TRUE, r.err, r.step)
                 /\ UNCHANGED <<type_id, btf_type_map>>
            ELSE /\ btf_type_map' = Insert(btf_type_map, type_id, r.type)
                 /\ type_id' = NextTypeId(type_id)
                 /\ UNCHANGED <<pc, failed_step, object, d_btf_type_map,
                                result>>)
  /\ UNCHANGED <<input, files, path_idx, btf_file_list, sect, sect_end,
                 dumped>>
  /\ UNCHANGED <<genvars, libvars>>

(* parseTypeSections: the end of the type section of btf_file sect. *)
EndSection ==
  /\ pc = "record"
  /\ Offset(btf_file_list, sect, [rs |-> readers]) >= sect_end
  /\ sect' = sect + 1
  /\ pc' = "section"
  /\ UNCHANGED <<input, files, path_idx, btf_file_list, readers, sect_end,
                 current_offset, type_id, btf_type_map, d_btf_type_map, object,
                 result, str_log, last_kind, failed_step, dumped>>
  /\ UNCHANGED <<genvars, libvars>>

(* parseTypeSections returns the map; createFromPathList returns the       *)
(* object.                                                                 *)
Finish ==
  /\ pc = "section"
  /\ sect > Len(btf_file_list)
  /\ Return(FALSE, NoError, "")
  /\ UNCHANGED <<input, files, path_idx, btf_file_list, readers, sect,
                 sect_end, current_offset, type_id, btf_type_map, str_log,
                 last_kind, dumped>>
  /\ UNCHANGED <<genvars, libvars>>

(* dump-btf: the loop over getAll() prints one more type.  BTFTypeMap is a *)
(* std::unordered_map: the order of its iteration is not specified.        *)
DumpType ==
  /\ pc = "done"
  /\ object
  /\ gen_pc = "idle"
  /\ \E id \in DOMAIN d_btf_type_map \ {dumped[n] : n \in 1..Len(dumped)} :
       dumped' = Append(dumped, id)
  /\ UNCHANGED <<input, files, pc, path_idx, btf_file_list, readers, sect,
                 sect_end, current_offset, type_id, btf_type_map,
                 d_btf_type_map, object, result, str_log, last_kind,
                 failed_step>>
  /\ UNCHANGED <<genvars, libvars>>

----------------------------------------------------------------------------
(* BTFHeaderGenerator::generate as a state machine: one action per step of *)
(* generate().  An unordered container is iterated in an order the action  *)
(* chooses among the permutations of the ids it holds.                     *)

RECURSIVE Perms(_)
Perms(s) ==
  IF s = {} THEN {<<>>}
  ELSE UNION {{<<x>> \o p : p \in Perms(s \ {x})} : x \in s}

(* What ends generate() other than a return: the exceptions its steps      *)
(* throw, which generate() does not catch.                                 *)
Exceptions == {"out_of_range", "logic_error", "bad_alloc",
               "bad_optional_access"}

(* A step of generate() ended with st: generate() goes on to the step      *)
(* next_pc, returns false, is left by an exception, or never returns.      *)
GenStep(st, next_pc) ==
  CASE st = "ok" -> gen_pc' = next_pc /\ UNCHANGED gen_result
    [] st = "false" -> gen_pc' = "done" /\ gen_result' = "false"
    [] st = "recursion" -> gen_pc' = "recursing" /\ UNCHANGED gen_result
    [] OTHER -> gen_pc' = "done" /\ gen_result' = st

(* generate(): header.clear() and saveBTFTypeMap. *)
SaveBTFTypeMap ==
  /\ pc = "done"
  /\ object
  /\ gen_pc = "idle"
  /\ header' = <<>>
  /\ Bind(saveBTFTypeMap(NewContext, d_btf_type_map), LAMBDA r :
       /\ context' = r.c
       /\ GenStep(IF r.ok THEN "ok" ELSE "false", "names"))
  /\ UNCHANGED <<gen_run, first_map, created_tree>>
  /\ UNCHANGED <<decodevars, libvars>>

(* The types adjustTypeNames can name; its loop passes over the others. *)
NamedTypes(map) ==
  {id \in DOMAIN map :
     map[id].kind \in {"Struct", "Union", "Enum", "Typedef", "Void", "Int"}}

AdjustTypeNames ==
  /\ gen_pc = "names"
  /\ \E order \in Perms(NamedTypes(context.btf_type_map)) :
       Bind(adjustTypeNames(context.btf_type_map, order), LAMBDA r :
         /\ context' = [context EXCEPT !.btf_type_map = r.map]
         /\ GenStep(IF r.ok THEN "ok" ELSE "false", "scan"))
  /\ UNCHANGED <<header, gen_run, first_map, created_tree>>
  /\ UNCHANGED <<decodevars, libvars>>

ScanTypes ==
  /\ gen_pc = "scan"
  /\ \E order \in Perms({id \in DOMAIN context.btf_type_map :
                           context.btf_type_map[id].kind = "Fwd"}) :
       context' = scanTypes(context, order)
  /\ gen_pc' = "padding"
  /\ UNCHANGED <<header, gen_result, gen_run, first_map, created_tree>>
  /\ UNCHANGED <<decodevars, libvars>>

MaterializePadding ==
  /\ gen_pc = "padding"
  /\ \E order \in Perms({id \in DOMAIN context.btf_type_map :
                           context.btf_type_map[id].kind = "Struct"}) :
       \E allocates \in BOOLEAN :
         Bind(materializePadding(context, order, allocates), LAMBDA r :
           /\ context' = r.c
           /\ GenStep(r.st, "tree"))
  /\ UNCHANGED <<header, gen_run, first_map, created_tree>>
  /\ UNCHANGED <<decodevars, libvars>>

CreateTypeTree ==
  /\ gen_pc = "tree"
  /\ \E order \in Perms(context.top_level_type_list) :
       Bind(createTypeTree(context, order), LAMBDA r :
         /\ context' = r.c
         /\ created_tree' = r.c.type_tree
         /\ GenStep(r.st, "loops"))
  /\ UNCHANGED <<header, gen_run, first_map>>
  /\ UNCHANGED <<decodevars, libvars>>

AdjustTypedefDependencyLoops ==
  /\ gen_pc = "loops"
  /\ \E order \in Perms(context.top_level_type_list) :
       Bind(adjustTypedefDependencyLoops(context, order), LAMBDA r :
         /\ context' = r.c
         /\ GenStep(r.st, "queue"))
  /\ UNCHANGED <<header, gen_run, first_map, created_tree>>
  /\ UNCHANGED <<decodevars, libvars>>

(* The ids that are keys of type_tree or of its link lists. *)
TreeIds(c) ==
  c.top_level_type_list
  \cup {c.fwd_type_map[name] : name \in DOMAIN c.fwd_type_map}

CreateTypeQueue ==
  /\ gen_pc = "queue"
  /\ \E order \in Perms(TreeIds(context)) :
       Bind(createTypeQueue(context, order), LAMBDA r :
         /\ context' = r.c
         /\ GenStep(r.st, "header"))
  /\ UNCHANGED <<header, gen_run, first_map, created_tree>>
  /\ UNCHANGED <<decodevars, libvars>>

(* generateHeader, and `header = buffer.str(); return true`. *)
GenerateHeader ==
  /\ gen_pc = "header"
  /\ Bind(generateHeader(context), LAMBDA r :
       /\ header' = IF r.st = "ok" THEN r.text ELSE header
       /\ context' = r.c
       /\ IF r.st = "ok"
            THEN gen_pc' = "done" /\ gen_result' = "true"
            ELSE GenStep(r.st, "done"))
  /\ UNCHANGED <<gen_run, first_map, created_tree>>
  /\ UNCHANGED <<decodevars, libvars>>

(* generate() is called a second time, on the TypeMap its first run left. *)
GenerateAgain ==
  /\ gen_pc = "done"
  /\ gen_result = "true"
  /\ gen_run = 1
  /\ gen_run' = 2
  /\ first_map' = context.btf_type_map
  /\ header' = <<>>
  /\ gen_result' = "none"
  /\ context' = saveBTFTypeMap(NewContext, context.btf_type_map).c
  /\ gen_pc' = "names"
  /\ UNCHANGED created_tree
  /\ UNCHANGED <<decodevars, libvars>>

NextGen == OpenFile \/ BeginSection \/ ParseType \/ EndSection \/ Finish
           \/ SaveBTFTypeMap \/ AdjustTypeNames \/ ScanTypes
           \/ MaterializePadding \/ CreateTypeTree
           \/ AdjustTypedefDependencyLoops \/ CreateTypeQueue
           \/ GenerateHeader \/ GenerateAgain

----------------------------------------------------------------------------
(* The specifications. *)

Next == OpenFile \/ BeginSection \/ ParseType \/ EndSection \/ Finish
        \/ DumpType

Init ==
  \/ \E k \in 1..MaxBlobs : \E rl \in RecLists(k, MaxTypes) :
       InitWith(CleanInput(rl))
  \/ \E in \in VariantInputs : InitWith(in)

Spec == Init /\ [][Next]_vars

InitStr == \E in \in StrInputs : InitWith(in)

SpecStr == InitStr /\ [][Next]_vars

InitInt == \E in \in IntInputs : InitWith(in)

SpecInt == InitInt /\ [][Next]_vars

InitProto == \E in \in ProtoInputs : InitWith(in)

SpecProto == InitProto /\ [][Next]_vars

InitStruct == \E in \in StructInputs : InitWith(in)

SpecStruct == InitStruct /\ [][Next]_vars

(* The generator family: one blob.  Its string section holds "", "S",      *)
(* "T", "U", "W", "i", "unsigned char", "S_3"; a member is <<type,        *)
(* offset>>, its name absent.                                              *)
GenStrs ==
  <<0, 83, 0, 84, 0, 85, 0, 87, 0, 105, 0>> \o UnsignedChar
  \o <<0, 83, 95, 51, 0>>

IntOf(size) == Rec(9, 0, 1, 0, size, <<(<<size * 8, 0, 0, 0>>)>>)

(* unsigned char, as a compiler describes it. *)
CharInt == Rec(11, 0, 1, 0, 1, <<(<<8, 0, 0, 0>>)>>)
PtrTo(type) == Rec(0, 0, 2, 0, type, <<>>)
ConstOf(type) == Rec(0, 0, 10, 0, type, <<>>)
TypedefOf(name_off, type) == Rec(name_off, 0, 8, 0, type, <<>>)

MembersOf(ms) ==
  Concat([n \in 1..Len(ms) |-> <<Word(0), Word(ms[n][1]), Word(ms[n][2])>>])

StructOf(name_off, size, ms) ==
  Rec(name_off, Len(ms), 4, 0, size, MembersOf(ms))

UnionOf(name_off, size, ms) ==
  Rec(name_off, Len(ms), 5, 0, size, MembersOf(ms))

(* The records a list of the family is drawn from; a type reference is 0   *)
(* (void), an id of the list, or the id after its last.                    *)
GenVocab ==
  <<IntOf(1), IntOf(4), CharInt>>
  \o [t \in 1..(MaxGenTypes + 2) |-> PtrTo(t - 1)]
  \o [t \in 1..(MaxGenTypes + 2) |-> ConstOf(t - 1)]
  \o [t \in 1..(MaxGenTypes + 2) |-> TypedefOf(3, t - 1)]
  \o Concat([t \in 1..(MaxGenTypes + 2) |->
               <<StructOf(1, 1, <<(<<t - 1, 0>>)>>),
                 StructOf(1, 8, <<(<<t - 1, 0>>)>>),
                 StructOf(1, 8, <<(<<t - 1, 8>>)>>),
                 StructOf(0, 8, <<(<<t - 1, 0>>)>>),
                 UnionOf(1, 4, <<(<<t - 1, 0>>)>>)>>])

GenCodes == UNION {[1..m -> 1..Len(GenVocab)] : m \in 0..MaxGenTypes}

(* struct S { T *next; }; typedef struct S T; *)
TypedefLoop ==
  <<StructOf(1, 8, <<(<<3, 0>>)>>), TypedefOf(3, 1), PtrTo(2)>>

(* struct S { T *x; }; typedef U T; typedef struct S U; *)
TypedefChain ==
  <<StructOf(1, 8, <<(<<4, 0>>)>>), TypedefOf(3, 3), TypedefOf(5, 1),
    PtrTo(2)>>

(* struct S { T t; }; struct U { T t; }; struct W { T t; };                *)
(* typedef struct { struct S *a; struct U *b; } T;                         *)
SharedTypedef ==
  <<StructOf(1, 16, <<(<<4, 0>>)>>), StructOf(5, 16, <<(<<4, 0>>)>>),
    StructOf(7, 16, <<(<<4, 0>>)>>), TypedefOf(3, 5),
    StructOf(0, 16, <<(<<6, 0>>), (<<7, 64>>)>>), PtrTo(1), PtrTo(2)>>

(* struct S { int i; struct U *u; }; struct U { struct S s; }; *)
WeakLink ==
  <<StructOf(1, 12, <<(<<4, 0>>), (<<3, 32>>)>>),
    StructOf(5, 12, <<(<<1, 0>>)>>), PtrTo(2), IntOf(4)>>

(* struct S { int a; int b; } with both members at bit 0. *)
EqualOffsets ==
  <<StructOf(1, 4, <<(<<2, 0>>), (<<2, 0>>)>>), IntOf(4)>>

(* struct S { struct U u; int b; }, struct U {} of size 0: both at bit 0. *)
EqualOffsetsEmpty ==
  <<StructOf(1, 4, <<(<<2, 0>>), (<<3, 0>>)>>), StructOf(5, 0, <<>>),
    IntOf(4)>>

(* struct S { int a; int b; } with a at bit 32 and b at bit 0. *)
DecreasingOffsets ==
  <<StructOf(1, 8, <<(<<2, 32>>), (<<2, 0>>)>>), IntOf(4)>>

(* struct S { struct { struct U u; } *a; }; struct U { int i; }; *)
AnonymousUnderPointer ==
  <<StructOf(1, 8, <<(<<4, 0>>)>>), StructOf(0, 4, <<(<<3, 0>>)>>),
    StructOf(5, 4, <<(<<5, 0>>)>>), PtrTo(2), IntOf(4)>>

(* struct S { struct U *p; struct U u; }; struct U { int i; }; *)
WeakThenStrong ==
  <<StructOf(1, 12, <<(<<3, 0>>), (<<2, 64>>)>>),
    StructOf(5, 4, <<(<<4, 0>>)>>), PtrTo(2), IntOf(4)>>

(* struct S { struct U u; struct U *p; }; struct U { int i; }; *)
StrongThenWeak ==
  <<StructOf(1, 12, <<(<<2, 0>>), (<<3, 32>>)>>),
    StructOf(5, 4, <<(<<4, 0>>)>>), PtrTo(2), IntOf(4)>>

(* A forward declaration: struct name; or, with is_union 1, union name; *)
FwdRec(name_off, is_union) == Rec(name_off, 0, 7, is_union, 0, <<>>)

(* WeakLink and the forward declaration struct U; *)
FwdDecoded == WeakLink \o <<FwdRec(5, 0)>>

(* WeakLink and the forward declaration union U; *)
FwdOfOtherKind == WeakLink \o <<FwdRec(5, 1)>>

(* struct S {}; struct S_3 {}; struct S {}; *)
RenameCollides ==
  <<StructOf(1, 0, <<>>), StructOf(25, 0, <<>>), StructOf(1, 0, <<>>)>>

(* Records with named members: a member is <<name_off, type, offset>>. *)
NamedMembersOf(ms) ==
  Concat([n \in 1..Len(ms) |->
            <<Word(ms[n][1]), Word(ms[n][2]), Word(ms[n][3])>>])

NamedStructOf(name_off, size, ms) ==
  Rec(name_off, Len(ms), 4, 0, size, NamedMembersOf(ms))

NamedUnionOf(name_off, size, ms) ==
  Rec(name_off, Len(ms), 5, 0, size, NamedMembersOf(ms))

(* A function prototype; its parameters have no names. *)
FuncProtoWith(return_type, params) ==
  Rec(0, Len(params), 13, 0, return_type,
      Concat([n \in 1..Len(params) |-> <<Word(0), Word(params[n])>>]))

(* A function, and a prototype without parameters. *)
FuncOf(name_off, type) == Rec(name_off, 0, 12, 0, type, <<>>)
FuncProtoOf(return_type) == Rec(0, 0, 13, 0, return_type, <<>>)

(* struct S { int T; int *U; }; *)
NamedMembers ==
  <<NamedStructOf(1, 12, <<(<<3, 2, 0>>), (<<5, 3, 32>>)>>), IntOf(4),
    PtrTo(2)>>

(* typedef struct { int U; union { int W; }; } T; *)
TypedefOfAnonymous ==
  <<TypedefOf(3, 2),
    NamedStructOf(0, 8, <<(<<5, 4, 0>>), (<<0, 3, 32>>)>>),
    NamedUnionOf(0, 4, <<(<<7, 4, 0>>)>>), IntOf(4)>>

(* struct S { T; int U; }, T a pointer to a function of an int and of a   *)
(* pointer to struct S, returning int.                                     *)
FunctionPointerMember ==
  <<NamedStructOf(1, 12, <<(<<3, 2, 0>>), (<<5, 4, 64>>)>>), PtrTo(3),
    FuncProtoWith(4, <<4, 5>>), IntOf(4), PtrTo(1)>>

(* typedef T, a pointer to a function of an int returning void. *)
TypedefOfFunctionPointer ==
  <<TypedefOf(3, 2), PtrTo(3), FuncProtoWith(0, <<4>>), IntOf(4)>>

(* struct S { struct { int U; } T; int W; }; *)
NestedNamed ==
  <<NamedStructOf(1, 8, <<(<<3, 2, 0>>), (<<7, 3, 32>>)>>),
    NamedStructOf(0, 4, <<(<<5, 3, 0>>)>>), IntOf(4)>>

(* typedef of a Func, whose generateType writes nothing. *)
TypedefOfFunc ==
  <<TypedefOf(3, 2), FuncOf(5, 3), FuncProtoWith(4, <<>>), IntOf(4)>>

(* struct S { <Func> T; struct { int W; }; }, the member T of a Func type. *)
MemberOfFunc ==
  <<NamedStructOf(1, 4, <<(<<3, 2, 0>>), (<<0, 4, 0>>)>>), FuncOf(5, 3),
    FuncProtoWith(5, <<>>), NamedStructOf(0, 4, <<(<<7, 5, 0>>)>>),
    IntOf(4)>>

GenScenarios ==
  <<TypedefLoop, TypedefChain, SharedTypedef, WeakLink, EqualOffsets,
    EqualOffsetsEmpty, DecreasingOffsets, AnonymousUnderPointer,
    WeakThenStrong, StrongThenWeak, FwdDecoded, FwdOfOtherKind,
    RenameCollides, NamedMembers, TypedefOfAnonymous, FunctionPointerMember,
    TypedefOfFunctionPointer, NestedNamed, TypedefOfFunc, MemberOfFunc>>

GenInput(recs) == <<Blob(GenStrs, recs)>>

StaleHeader == <<Token("stale", 0)>>

InitGen ==
  /\ \/ \E code \in GenCodes :
          DecodeInit(GenInput([n \in 1..Len(code) |-> GenVocab[code[n]]]))
     \/ \E n \in 1..Len(GenScenarios) : DecodeInit(GenInput(GenScenarios[n]))
  /\ \E h \in {<<>>, StaleHeader} : GenIdle(h)
  /\ LibIdle

SpecGen == InitGen /\ [][NextGen]_vars


----------------------------------------------------------------------------
(* What the properties speak of. *)

(* The decode ended with the IBTF object in the caller's hands. *)
Decoded == pc = "done" /\ object

(* The type records of the first i blobs. *)
RecordCount(i) == Sum([j \in 1..i |-> Len(input[j].recs)])

(* The name of a wire kind. *)
KindName(kind) ==
  CASE kind = 1 -> "Int" [] kind = 2 -> "Ptr" [] kind = 3 -> "Array"
    [] kind = 4 -> "Struct" [] kind = 5 -> "Union" [] kind = 6 -> "Enum"
    [] kind = 7 -> "Fwd" [] kind = 8 -> "Typedef" [] kind = 9 -> "Volatile"
    [] kind = 10 -> "Const" [] kind = 11 -> "Restrict" [] kind = 12 -> "Func"
    [] kind = 13 -> "FuncProto" [] kind = 14 -> "Var" [] kind = 15 -> "DataSec"
    [] kind = 16 -> "Float" [] OTHER -> "Void"

(* The string-section lengths of the first i blobs, added up. *)
StrPrefix(i) == Sum([j \in 1..i |-> Len(input[j].strs)])

(* The TypeIds a type stores. *)
Refs(t) ==
  CASE t.kind \in {"Ptr", "Typedef", "Const", "Volatile", "Restrict", "Func",
                   "Var"} -> {t.type}
    [] t.kind = "Array" -> {t.type, t.index_type}
    [] t.kind \in {"Struct", "Union"} ->
         {t.member_list[n].type : n \in 1..Len(t.member_list)}
    [] t.kind = "FuncProto" ->
         {t.return_type} \cup {t.param_list[n].type : n \in 1..Len(t.param_list)}
    [] t.kind = "DataSec" ->
         {t.variable_list[n].type : n \in 1..Len(t.variable_list)}
    [] OTHER -> {}

(* The encoding-error codes of BTFErrorInformation::Code. *)
EncodingCodes ==
  {"InvalidIntBTFTypeEncoding", "InvalidPtrBTFTypeEncoding",
   "InvalidArrayBTFTypeEncoding", "InvalidTypedefBTFTypeEncoding",
   "InvalidEnumBTFTypeEncoding", "InvalidFuncProtoBTFTypeEncoding",
   "InvalidVolatileBTFTypeEncoding", "InvalidFwdBTFTypeEncoding",
   "InvalidFuncBTFTypeEncoding", "InvalidFloatBTFTypeEncoding",
   "InvalidRestrictBTFTypeEncoding", "InvalidVarBTFTypeEncoding",
   "InvalidDataSecBTFTypeEncoding"}

(* The encoding-error code named after a kind. *)
KindCode(kind) ==
  CASE kind = 1 -> "InvalidIntBTFTypeEncoding"
    [] kind = 2 -> "InvalidPtrBTFTypeEncoding"
    [] kind = 3 -> "InvalidArrayBTFTypeEncoding"
    [] kind = 4 -> "InvalidStructBTFTypeEncoding"
    [] kind = 5 -> "InvalidUnionBTFTypeEncoding"
    [] kind = 6 -> "InvalidEnumBTFTypeEncoding"
    [] kind = 7 -> "InvalidFwdBTFTypeEncoding"
    [] kind = 8 -> "InvalidTypedefBTFTypeEncoding"
    [] kind = 9 -> "InvalidVolatileBTFTypeEncoding"
    [] kind = 10 -> "InvalidConstBTFTypeEncoding"
    [] kind = 11 -> "InvalidRestrictBTFTypeEncoding"
    [] kind = 12 -> "InvalidFuncBTFTypeEncoding"
    [] kind = 13 -> "InvalidFuncProtoBTFTypeEncoding"
    [] kind = 14 -> "InvalidVarBTFTypeEncoding"
    [] kind = 15 -> "InvalidDataSecBTFTypeEncoding"
    [] kind = 16 -> "InvalidFloatBTFTypeEncoding"
    [] OTHER -> ""

----------------------------------------------------------------------------
(* C1: after a successful decode the TypeMap holds exactly the ids 1..N,   *)
(* N the number of type records of all the blobs; the j-th record of blob  *)
(* i has the id (records of the blobs before i) + j; count() is N.  While  *)
(* the decode runs, the ids given out so far are 1..type_id-1.             *)
C1_ConsecutiveIds ==
  /\ DOMAIN btf_type_map = 1..(type_id - 1)
  /\ Decoded =>
       /\ DOMAIN d_btf_type_map = 1..RecordCount(Len(input))
       /\ Cardinality(DOMAIN d_btf_type_map) = RecordCount(Len(input))
       /\ \A i \in 1..Len(input) : \A j \in 1..Len(input[i].recs) :
            d_btf_type_map[RecordCount(i - 1) + j].kind
              = KindName(input[i].recs[j].kind)

(* A decode of two blobs that both hold records, three records in all. *)
C1_Witness ==
  /\ Decoded
  /\ Len(input) = 2
  /\ input[1].recs # <<>>
  /\ input[2].recs # <<>>
  /\ Cardinality(DOMAIN d_btf_type_map) = 3

(* C4: a decode in which a step failed ends with an error and without an   *)
(* object, and the caller's TypeMap is empty; before createFromPathList    *)
(* returns the caller holds nothing.                                       *)
C4_NoPartialTypeMap ==
  /\ pc # "done" =>
       ~object /\ d_btf_type_map = <<>> /\ result.state = "none"
  /\ (pc = "done" /\ failed_step # "") =>
       /\ ~object
       /\ d_btf_type_map = <<>>
       /\ result.state = "error"
       /\ result.err.code # ""
  /\ (pc = "done" /\ failed_step = "") => object /\ result.state = "value"

(* A record failed in its parser after two records had been decoded. *)
C4_Witness ==
  /\ pc = "done"
  /\ failed_step = "parser"
  /\ DOMAIN btf_type_map = {1, 2}
  /\ ~object
  /\ result.state = "error"

(* C5: in the TypeMap of a successful decode every stored TypeId is 0 or   *)
(* an id of the TypeMap.                                                   *)
C5_RefsPresent ==
  Decoded =>
    \A id \in DOMAIN d_btf_type_map :
      Refs(d_btf_type_map[id]) \subseteq {0} \cup DOMAIN d_btf_type_map

(* C6: the loop over getAll() visits the ids in the order 1, 2, ..., N. *)
C6_AscendingIteration == \A n \in 1..Len(dumped) : dumped[n] = n

(* C7: in the TypeMap of a successful decode every member of a Struct or   *)
(* Union has 0 <= offset < size*8 and, with a bitfield width,              *)
(* offset + width <= size*8.                                               *)
C7_MemberOffsets ==
  Decoded =>
    \A id \in DOMAIN d_btf_type_map :
      d_btf_type_map[id].kind \in {"Struct", "Union"} =>
        \A n \in 1..Len(d_btf_type_map[id].member_list) :
          /\ 0 <= d_btf_type_map[id].member_list[n].offset
          /\ d_btf_type_map[id].member_list[n].offset
               < d_btf_type_map[id].size * 8
          /\ d_btf_type_map[id].member_list[n].opt_bitfield_size.has =>
               d_btf_type_map[id].member_list[n].offset
               + d_btf_type_map[id].member_list[n].opt_bitfield_size.val
                 <= d_btf_type_map[id].size * 8

(* C8: a decoded FuncProto that is variadic has no parameter without a     *)
(* name and with type 0.                                                   *)
C8_NoVariadicMarkerLeft ==
  \A id \in DOMAIN btf_type_map :
    (btf_type_map[id].kind = "FuncProto" /\ btf_type_map[id].is_variadic) =>
      \A n \in 1..Len(btf_type_map[id].param_list) :
        ~(/\ ~btf_type_map[id].param_list[n].opt_name.has
          /\ btf_type_map[id].param_list[n].type = 0)

(* C2: a string offset below the sum of the blobs' str_len is looked up in *)
(* the blob whose range holds it, at the offset less the str_len of the    *)
(* blobs before that one.                                                  *)
C2_ResolvesInOwningBlob ==
  \A n \in 1..Len(str_log) :
    str_log[n].offset < StrPrefix(Len(input)) =>
      /\ str_log[n].blob \in 1..Len(input)
      /\ StrPrefix(str_log[n].blob - 1) <= str_log[n].offset
      /\ str_log[n].offset < StrPrefix(str_log[n].blob)
      /\ str_log[n].relative_offset
           = str_log[n].offset - StrPrefix(str_log[n].blob - 1)

(* C3: a string offset at or above the sum of the blobs' str_len is looked *)
(* up in no blob, and the decode fails with InvalidStringOffset.           *)
C3_OutOfRangeFails ==
  \A n \in 1..Len(str_log) :
    str_log[n].offset >= StrPrefix(Len(input)) =>
      /\ str_log[n].blob = 0
      /\ pc = "done"
      /\ result.state = "error"
      /\ result.err.code = "InvalidStringOffset"

(* The Int record of the Int family, and what became of it. *)
IntRecord == input[1].recs[1]

IntDecided == type_id = 2 \/ (pc = "done" /\ failed_step = "parser")

IntAccepted == type_id = 2

(* The conditions on the fields of an Int record: bits is byte 0 of the    *)
(* info word, offset its byte 2, the encoding bits Signed, Char and Bool   *)
(* the bits 0, 1 and 2 of its byte 3.                                      *)
IntFieldsValid(r) ==
  /\ r.kind_flag = 0
  /\ r.vlen = 0
  /\ r.size_or_type \in {1, 2, 4, 8, 16}
  /\ Cardinality({b \in {1, 2, 4} : (r.data[1][4] \div b) % 2 = 1}) <= 1
  /\ r.data[1][1] <= 128
  /\ r.data[1][3] + r.data[1][1] <= r.size_or_type * 8

(* Every Int of the map has one encoding, bits <= 128 and                  *)
(* offset + bits <= size*8.                                                *)
IntsWellFormed ==
  \A id \in DOMAIN btf_type_map :
    btf_type_map[id].kind = "Int" =>
      /\ btf_type_map[id].encoding \in {"None", "Signed", "Char", "Bool"}
      /\ btf_type_map[id].bits <= 128
      /\ btf_type_map[id].offset + btf_type_map[id].bits
           <= btf_type_map[id].size * 8

(* C9, as the specification states it: an Int record is accepted exactly   *)
(* when its fields are valid and is rejected with                          *)
(* InvalidIntBTFTypeEncoding otherwise; every decoded Int is well formed.  *)
C9_AcceptedIffFieldsValid ==
  /\ IntDecided =>
       /\ IntAccepted <=> IntFieldsValid(IntRecord)
       /\ ~IntAccepted => result.err.code = "InvalidIntBTFTypeEncoding"
  /\ IntsWellFormed

(* The name offset of the Int record lies in the string section, and the   *)
(* file holds the record's info word.                                      *)
IntRecordReadable ==
  /\ IntRecord.name_off < StrPrefix(Len(input))
  /\ input[1].cut = 0

(* C9, amended: an Int record whose name offset resolves and whose info    *)
(* word is in the file is accepted exactly when its fields are valid and   *)
(* is rejected with InvalidIntBTFTypeEncoding otherwise; a record with     *)
(* kind_flag, vlen or size invalid is rejected with that code whatever its *)
(* name offset; a record with these three valid whose name offset does not *)
(* resolve or whose file is cut short is rejected with InvalidStringOffset *)
(* or IOError; an accepted record stores the fields of the wire record;    *)
(* every decoded Int is well formed.                                       *)
C9_AcceptedIffFieldsValidAndReadable ==
  /\ (IntDecided /\ IntRecordReadable) =>
       /\ IntAccepted <=> IntFieldsValid(IntRecord)
       /\ ~IntAccepted => result.err.code = "InvalidIntBTFTypeEncoding"
  /\ (IntDecided /\ ~(/\ IntRecord.kind_flag = 0
                      /\ IntRecord.vlen = 0
                      /\ IntRecord.size_or_type \in {1, 2, 4, 8, 16})) =>
       ~IntAccepted /\ result.err.code = "InvalidIntBTFTypeEncoding"
  /\ (IntDecided /\ ~IntRecordReadable
      /\ IntRecord.kind_flag = 0
      /\ IntRecord.vlen = 0
      /\ IntRecord.size_or_type \in {1, 2, 4, 8, 16}) =>
       /\ ~IntAccepted
       /\ result.err.code \in {"InvalidStringOffset", "IOError"}
  /\ IntAccepted =>
       /\ IntFieldsValid(IntRecord)
       /\ btf_type_map[1].size = IntRecord.size_or_type
       /\ btf_type_map[1].bits = IntRecord.data[1][1]
       /\ btf_type_map[1].offset = IntRecord.data[1][3]
  /\ IntsWellFormed

(* An Int of 16 bytes and 128 bits was accepted, and so was a Bool. *)
C9_Witness ==
  /\ IntAccepted
  /\ IntRecordReadable
  /\ btf_type_map[1].bits = 128
  /\ btf_type_map[1].size = 16
  /\ btf_type_map[1].encoding = "Bool"

(* C10: when the parser of a record fails with an encoding-error code, the *)
(* code is the one named after the record's kind, and the file range       *)
(* starts at the record's header.                                          *)
C10_CodeOfTheSameKind ==
  (pc = "done" /\ failed_step = "parser"
   /\ result.err.code \in EncodingCodes) =>
    /\ result.err.code = KindCode(last_kind)
    /\ result.err.opt_file_range.has
    /\ result.err.opt_file_range.offset = current_offset

----------------------------------------------------------------------------
(* The first two bytes of the file of blob k. *)
MagicOf(k) == SubSeq(files[k].bytes, 1, 2)

(* The header a producer wrote into blob k, as numbers. *)
WrittenHeader(k) ==
  [hdr_len |-> 24, type_off |-> 0,
   type_len |-> Len(TypeBytes(input[k].recs, input[k].magic # "BE")),
   str_off |-> Len(TypeBytes(input[k].recs, input[k].magic # "BE")),
   str_len |-> Len(input[k].strs)]

(* C11: the magic of a blob fixes the endianness of its reader before its  *)
(* header is read: the reader of every blob whose header was read is       *)
(* little-endian for the marker 9F EB and big-endian for EB 9F, and the    *)
(* header fields and the records decoded from it have the values the       *)
(* producer wrote in that byte order; a blob the constructor reaches whose *)
(* two magic bytes are anything else ends the decode with                  *)
(* InvalidMagicValue, with no type record of any blob parsed; no record is *)
(* parsed before the magic of every blob was accepted.                     *)
C11_MagicFixesEndianness ==
  /\ \A k \in 1..Len(btf_file_list) :
       /\ MagicOf(k) \in {kLittleEndianMagicValue, kBigEndianMagicValue}
       /\ readers[k].little_endian = (MagicOf(k) = kLittleEndianMagicValue)
       /\ btf_file_list[k].btf_header.magic = kLittleEndianMagicValue
       /\ btf_file_list[k].btf_header.hdr_len = WrittenHeader(k).hdr_len
       /\ btf_file_list[k].btf_header.type_off = WrittenHeader(k).type_off
       /\ btf_file_list[k].btf_header.type_len = WrittenHeader(k).type_len
       /\ btf_file_list[k].btf_header.str_off = WrittenHeader(k).str_off
       /\ btf_file_list[k].btf_header.str_len = WrittenHeader(k).str_len
  /\ (/\ pc = "done"
      /\ path_idx <= Len(files)
      /\ files[path_idx].exists
      /\ Len(files[path_idx].bytes) >= 2
      /\ MagicOf(path_idx) \notin {kLittleEndianMagicValue,
                                   kBigEndianMagicValue}) =>
       /\ failed_step = "magic"
       /\ result.state = "error"
       /\ result.err.code = "InvalidMagicValue"
       /\ btf_type_map = <<>> /\ type_id = 1 /\ str_log = <<>>
       /\ current_offset = 0
  /\ (pc = "done" /\ result.err.code = "InvalidMagicValue") =>
       /\ failed_step = "magic"
       /\ MagicOf(path_idx) \notin {kLittleEndianMagicValue,
                                    kBigEndianMagicValue}
  /\ (pc \in {"section", "record"} \/ type_id > 1) =>
       \A k \in 1..Len(files) :
         MagicOf(k) \in {kLittleEndianMagicValue, kBigEndianMagicValue}
  /\ \A i \in 1..Len(input) : \A j \in 1..Len(input[i].recs) :
       (RecordCount(i - 1) + j) \in DOMAIN btf_type_map =>
         Bind(btf_type_map[RecordCount(i - 1) + j], LAMBDA t :
           /\ t.kind = KindName(input[i].recs[j].kind)
           /\ t.kind = "Int" =>
                /\ t.size = input[i].recs[j].size_or_type
                /\ t.bits = input[i].recs[j].data[1][1]
           /\ t.kind \in {"Ptr", "Typedef"} =>
                t.type = input[i].recs[j].size_or_type)

(* A big-endian blob and a little-endian blob were decoded together. *)
C11_Witness ==
  /\ Decoded
  /\ Len(input) = 2
  /\ input[1].magic = "BE"
  /\ input[2].magic = "LE"
  /\ ~readers[1].little_endian
  /\ readers[2].little_endian
  /\ d_btf_type_map[2].kind = "Ptr"
  /\ d_btf_type_map[2].type = 2
  /\ d_btf_type_map[3].size = 4

----------------------------------------------------------------------------
(* The header generator: padding. *)

(* The width of a member: its bitfield width, else the size of its type;   *)
(* -1 when its type has no size.                                           *)
MemberWidth(map, member) ==
  IF "wrapped" \in DOMAIN member THEN -1
  ELSE IF isBitfield(member) THEN member.opt_bitfield_size.val
  ELSE Bind(getBTFTypeSize(map, member.type, {}), LAMBDA opt_type_size :
    IF opt_type_size.st = "value" THEN opt_type_size.val ELSE -1)

(* Where the members from member n on end when each starts where the one   *)
(* before it ends and member n starts at `at`; -1 when one does not.       *)
RECURSIVE TiledEnd(_, _, _, _)
TiledEnd(map, member_list, n, at) ==
  IF n > Len(member_list) THEN at
  ELSE IF member_list[n].offset # at \/ MemberWidth(map, member_list[n]) < 0
    THEN -1
  ELSE TiledEnd(map, member_list, n + 1,
                at + MemberWidth(map, member_list[n]))

Tiles(map, id) == TiledEnd(map, map[id].member_list, 1, 0) = map[id].size * 8

(* materializePadding returned true and generate() is at its next step. *)
PaddingSucceeded == gen_pc = "tree"

(* C12: after padding materialization succeeds, the member list of every   *)
(* Struct and every Union of the TypeMap tiles the bits [0, size*8): the   *)
(* first member starts at 0, each starts where the one before it ends, and *)
(* the last ends at size*8.                                                *)
C12_MembersTile ==
  PaddingSucceeded =>
    \A id \in DOMAIN context.btf_type_map :
      context.btf_type_map[id].kind \in {"Struct", "Union"}
        => Tiles(context.btf_type_map, id)

----------------------------------------------------------------------------
(* The header generator: the emission queue. *)

(* b is placed before a in the queue. *)
Before(type_queue, b, a) ==
  \E i \in 1..Len(type_queue) : \E j \in 1..Len(type_queue) :
    i < j /\ type_queue[i] = b /\ type_queue[j] = a

(* The Fwd types of the type id: those fwd_type_map holds for its name. *)
FwdOf(c, id) ==
  {c.fwd_type_map[name] :
     name \in {n \in DOMAIN c.fwd_type_map :
                 getTypeName(c.btf_type_map, id) = Some(n)}}

(* createTypeQueue returned true and generate() is at its next step. *)
QueueCreated == gen_pc = "header"

(* The links of type_tree that are strong, and those that are weak. *)
StrongLinks(type_tree) ==
  {<<a, b>> \in (DOMAIN type_tree) \X UNION {DOMAIN type_tree[p] :
                                               p \in DOMAIN type_tree} :
     b \in DOMAIN type_tree[a] /\ ~type_tree[a][b]}

WeakLinks(type_tree) ==
  {<<a, b>> \in (DOMAIN type_tree) \X UNION {DOMAIN type_tree[p] :
                                               p \in DOMAIN type_tree} :
     b \in DOMAIN type_tree[a] /\ type_tree[a][b]}

(* C13: the emission queue is a topological order of the strong            *)
(* dependencies (when A depends strongly on B, B is placed before A), and  *)
(* for every weak link parent -> child the child or a Fwd of the child is  *)
(* placed before the parent.                                               *)
C13_QueueIsTopological ==
  QueueCreated =>
    /\ \A l \in StrongLinks(context.type_tree) :
         Before(context.type_queue, l[2], l[1])
    /\ \A l \in WeakLinks(context.type_tree) :
         \/ Before(context.type_queue, l[2], l[1])
         \/ \E fwd \in FwdOf(context, l[2]) :
              Before(context.type_queue, fwd, l[1])

----------------------------------------------------------------------------
(* The header generator: typedef loop breaking. *)

Links(type_tree, id) ==
  IF id \in DOMAIN type_tree THEN DOMAIN type_tree[id] ELSE {}

(* The loops adjustTypedefDependencyLoops is to break: <<S, T>>, S a named *)
(* Struct or Union with the Typedef T as a direct child in the tree        *)
(* createTypeTree built while T depends on S.                              *)
TypedefLoops ==
  {<<s, t>> \in (DOMAIN context.btf_type_map) \X (DOMAIN context.btf_type_map) :
     /\ context.btf_type_map[s].kind \in {"Struct", "Union"}
     /\ getTypeName(context.btf_type_map, s).has
     /\ context.btf_type_map[t].kind = "Typedef"
     /\ t \in Links(created_tree, s)
     /\ s \in Links(created_tree, t)}

(* The users of t: the types with a link to t. *)
Users(type_tree, t) == {u \in DOMAIN type_tree : t \in DOMAIN type_tree[u]}

(* u is s or a descendant of s, in the tree createTypeTree built or in the *)
(* tree loop breaking left.                                                *)
DescendantOrSelf(u, s) ==
  \/ u \in collectChildNodes(created_tree, s)
  \/ u \in collectChildNodes(context.type_tree, s)

(* adjustTypedefDependencyLoops returned true. *)
LoopsAdjusted == gen_pc \in {"queue", "header"}

(* C14: for every named struct/union S with a typedef T as a direct child  *)
(* while T depends on S, loop breaking makes T depend on a Fwd of S and    *)
(* not on S, gives every user of T that is neither S nor a descendant of S *)
(* a strong dependency on S, and the queue places the Fwd before T and T   *)
(* before S; afterwards no named struct/union and typedef depend directly  *)
(* on each other.                                                          *)
C14_TypedefLoopsBroken ==
  LoopsAdjusted =>
    /\ \A l \in TypedefLoops :
         /\ l[1] \notin Links(context.type_tree, l[2])
         /\ FwdOf(context, l[1]) \cap Links(context.type_tree, l[2]) # {}
         /\ \A u \in Users(context.type_tree, l[2]) :
              ~DescendantOrSelf(u, l[1])
                => /\ l[1] \in Links(context.type_tree, u)
                   /\ ~context.type_tree[u][l[1]]
         /\ QueueCreated =>
              /\ \E fwd \in FwdOf(context, l[1]) :
                   Before(context.type_queue, fwd, l[2])
              /\ Before(context.type_queue, l[2], l[1])
    /\ \A s \in DOMAIN context.btf_type_map :
         \A t \in DOMAIN context.btf_type_map :
           /\ context.btf_type_map[s].kind \in {"Struct", "Union"}
           /\ getTypeName(context.btf_type_map, s).has
           /\ context.btf_type_map[t].kind = "Typedef"
           => ~(t \in Links(context.type_tree, s)
                /\ s \in Links(context.type_tree, t))

----------------------------------------------------------------------------
(* The header generator: a second run. *)

(* The fixup steps of the second run have ended: createTypeQueue returned  *)
(* true, or a step returned false or threw.                                *)
SecondRunEnded == gen_run = 2 /\ gen_pc \in {"header", "done"}

(* C15: the fixup steps, run a second time on the TypeMap a first          *)
(* successful run produced, succeed and leave that TypeMap as it was.      *)
C15_FixupsIdempotent ==
  SecondRunEnded =>
    /\ gen_result \in {"none", "true"}
    /\ context.btf_type_map = first_map

----------------------------------------------------------------------------
(* C16.  The two outcomes of generate().                                   *)

GenerateEnded == gen_pc = "done"

(* The whole text generateHeader writes: from the pack push to the pack    *)
(* pop, every queued type closed by its end token.                         *)
CompleteHeader(text) ==
  /\ Len(text) >= 2
  /\ text[1] = Token("push", 0)
  /\ text[Len(text)] = Token("pop", 0)
  /\ \A n \in 2..(Len(text) - 1) : text[n].t # "pop"

(* C16: for every TypeMap, generate() ends in exactly one of two ways: it  *)
(* returns true and header holds the complete text, or it returns false    *)
(* and header is empty; it leaves no partial text and does not end in any  *)
(* other way, an exception escaping it included.                           *)
C16_TwoOutcomes ==
  GenerateEnded =>
    \/ gen_result = "true" /\ CompleteHeader(header)
    \/ gen_result = "false" /\ header = <<>>

----------------------------------------------------------------------------
(* C17.  Termination of decode and of generate().                          *)

(* generate() has been entered and has not ended. *)
GenerateRunning == gen_pc \notin {"idle", "done"}

(* The bytes of the first n input files. *)
RECURSIVE InputBytes(_)
InputBytes(n) ==
  IF n = 0 THEN 0 ELSE InputBytes(n - 1) + Len(files[n].bytes)

(* C17: decode and generate() terminate on every finite input in a number  *)
(* of steps bounded by its size: decode has taken no more record steps     *)
(* than the input has room for record headers, and generate(), once        *)
(* entered, never goes into a recursion that has no end; types referring   *)
(* to each other in a cycle included.                                      *)
C17_Terminates ==
  /\ Cardinality(DOMAIN btf_type_map) * kBTFTypeHeaderSize
       <= InputBytes(Len(files))
  /\ GenerateRunning => gen_pc # "recursing"

----------------------------------------------------------------------------
(* A FileReader on its own.  Its Context holds the stream and the byte     *)
(* order; the stream is a MemoryFileAdapter over a buffer, an              *)
(* FstreamAdapter over a file, or the MockedStream of the reader's tests,  *)
(* which refuses seeks or reads when told to.  A value read is the         *)
(* sequence of its bytes, least significant first.                         *)

MaxBufferSize == 9    \* bytes of a MemoryFileAdapter's buffer
MaxSeekOffset == 10   \* offset handed to seek
MaxReadSize == 4      \* size handed to read
MaxOffset == 16       \* offset a MockedStream is let reach

MemoryFileAdapter(buffer) ==
  [kind |-> "MemoryFileAdapter", file_buffer |-> buffer, file_pos |-> 0,
   file_buffer_size |-> Len(buffer)]

MockedStream ==
  [kind |-> "MockedStream", fail_seeks |-> FALSE, fail_reads |-> FALSE,
   current_offset |-> 0]

(* The FstreamAdapter over a file of file_size bytes: pos is the get      *)
(* position of its input_stream, fail whether the stream is in a failed   *)
(* state.                                                                  *)
FstreamAdapter(buffer) ==
  [kind |-> "FstreamAdapter", file_buffer |-> buffer, pos |-> 0,
   fail |-> FALSE]

(* What tellg() gives, as a uint64, on a stream in a failed state. *)
NoPosition == -1

(* IStream::seek: [ok, stream]. *)
StreamSeek(stream, offset) ==
  CASE stream.kind = "MemoryFileAdapter" ->
         IF offset >= stream.file_buffer_size
           THEN [ok |-> FALSE, stream |-> stream]
           ELSE [ok |-> TRUE, stream |-> [stream EXCEPT !.file_pos = offset]]
    [] stream.kind = "FstreamAdapter" ->
         [ok |-> TRUE,
          stream |-> [stream EXCEPT !.pos = offset, !.fail = FALSE]]
    [] OTHER ->
         IF stream.fail_seeks
           THEN [ok |-> FALSE, stream |-> stream]
           ELSE [ok |-> TRUE,
                 stream |-> [stream EXCEPT !.current_offset = offset]]

(* IStream::offset. *)
StreamOffset(stream) ==
  CASE stream.kind = "MemoryFileAdapter" -> stream.file_pos
    [] stream.kind = "FstreamAdapter" ->
         IF stream.fail THEN NoPosition ELSE stream.pos
    [] OTHER -> stream.current_offset

(* IStream::read: [ok, stream, buffer]. *)
StreamRead(stream, size) ==
  CASE stream.kind = "MemoryFileAdapter" ->
         IF (stream.file_pos + size) > stream.file_buffer_size
           THEN [ok |-> FALSE, stream |-> stream, buffer |-> <<>>]
           ELSE [ok |-> TRUE,
                 stream |-> [stream EXCEPT !.file_pos = @ + size],
                 buffer |-> SubSeq(stream.file_buffer, stream.file_pos + 1,
                                   stream.file_pos + size)]
    [] stream.kind = "FstreamAdapter" ->
         IF stream.fail
           THEN [ok |-> FALSE, stream |-> stream, buffer |-> <<>>]
         ELSE IF stream.pos + size > Len(stream.file_buffer)
           THEN [ok |-> FALSE,
                 stream |-> [stream EXCEPT
                               !.pos = MaxOf({@, Len(stream.file_buffer)}),
                               !.fail = TRUE],
                 buffer |-> <<>>]
           ELSE [ok |-> TRUE, stream |-> [stream EXCEPT !.pos = @ + size],
                 buffer |-> SubSeq(stream.file_buffer, stream.pos + 1,
                                   stream.pos + size)]
    [] OTHER ->
         IF stream.fail_reads
           THEN [ok |-> FALSE, stream |-> stream, buffer |-> <<>>]
           ELSE [ok |-> TRUE,
                 stream |-> [stream EXCEPT !.current_offset = @ + size],
                 buffer |-> [i \in 1..size |-> IF i = 1 THEN 255 ELSE 0]]

(* FileReader::offset(context). *)
FileReaderOffset(ctx) == StreamOffset(ctx.stream)

(* A seek error that carries the cursor, not the offset asked for. *)
SeekErrorAtCursor(ctx, offset) ==
  FileReaderError("IOError", Range(FileReaderOffset(ctx), 0))

(* The FileReaderError of a refused seek. *)
SeekError(ctx, offset) == FileReaderError("IOError", Range(offset, 0))

(* The FileReaderError of a refused read: read_offset is offset(context)   *)
(* taken before the stream reads.                                          *)
ReadError(ctx, size) ==
  FileReaderError("IOError", Range(FileReaderOffset(ctx), size))

(* FileReader::seek(context, offset): [threw, err, ctx]. *)
FileReaderSeek(ctx, offset) ==
  Bind(StreamSeek(ctx.stream, offset), LAMBDA r :
    IF ~r.ok
      THEN [threw |-> TRUE, err |-> SeekError(ctx, offset), ctx |-> ctx]
      ELSE [threw |-> FALSE, err |-> NoFRError,
            ctx |-> [ctx EXCEPT !.stream = r.stream]])

(* FileReader::read(context, buffer, size): [threw, err, ctx, buffer]. *)
FileReaderRead(ctx, size) ==
  Bind(StreamRead(ctx.stream, size), LAMBDA r :
    IF ~r.ok
      THEN [threw |-> TRUE, err |-> ReadError(ctx, size),
            ctx |-> [ctx EXCEPT !.stream = r.stream], buffer |-> <<>>]
      ELSE [threw |-> FALSE, err |-> NoFRError,
            ctx |-> [ctx EXCEPT !.stream = r.stream], buffer |-> r.buffer])

(* u8, u16, u32, u64: a read of the width, the bytes taken in the          *)
(* context's byte order.                                                   *)
FileReaderInteger(ctx, width) ==
  Bind(FileReaderRead(ctx, width), LAMBDA r :
    IF r.threw \/ ctx.little_endian THEN r
    ELSE [r EXCEPT !.buffer = Rev(r.buffer)])

FileReaderU8(ctx) == FileReaderRead(ctx, 1)

FileReaderU16(ctx) == FileReaderInteger(ctx, 2)

FileReaderU32(ctx) == FileReaderInteger(ctx, 4)

FileReaderU64(ctx) == FileReaderInteger(ctx, 8)

(* An operation on the FileReader that ended as r: fr_op keeps what was    *)
(* asked, the offset() before it, and how it ended.                        *)
ReaderDid(op, offset, size, r) ==
  /\ fr_context' = r.ctx
  /\ fr_op' = [op |-> op, offset |-> offset, size |-> size,
               before |-> FileReaderOffset(fr_context),
               threw |-> r.threw, err |-> r.err,
               value |-> IF "buffer" \in DOMAIN r THEN r.buffer ELSE <<>>]
  /\ UNCHANGED <<decodevars, genvars, resultvars, bridgevars>>

(* A MockedStream is kept below MaxOffset. *)
InReach(size) ==
  fr_context.stream.kind = "MockedStream" =>
    fr_context.stream.current_offset + size <= MaxOffset

Seek ==
  \E offset \in 0..MaxSeekOffset :
    ReaderDid("seek", offset, 0, FileReaderSeek(fr_context, offset))

Read ==
  \E size \in 0..MaxReadSize :
    /\ InReach(size)
    /\ ReaderDid("read", 0, size, FileReaderRead(fr_context, size))

U8 == InReach(1) /\ ReaderDid("u8", 0, 1, FileReaderU8(fr_context))

U16 == InReach(2) /\ ReaderDid("u16", 0, 2, FileReaderU16(fr_context))

U32 == InReach(4) /\ ReaderDid("u32", 0, 4, FileReaderU32(fr_context))

U64 == InReach(8) /\ ReaderDid("u64", 0, 8, FileReaderU64(fr_context))

(* FileReader::setEndianness. *)
SetEndianness ==
  \E little_endian \in BOOLEAN :
    /\ fr_context' = [fr_context EXCEPT !.little_endian = little_endian]
    /\ fr_op' = [op |-> "setEndianness", offset |-> 0, size |-> 0,
                 before |-> FileReaderOffset(fr_context), threw |-> FALSE,
                 err |-> NoFRError, value |-> <<>>]
    /\ UNCHANGED <<decodevars, genvars, resultvars, bridgevars>>

(* The tests tell the MockedStream to refuse seeks or reads. *)
Refuse ==
  /\ fr_context.stream.kind = "MockedStream"
  /\ \E fail_seeks \in BOOLEAN, fail_reads \in BOOLEAN :
       /\ <<fail_seeks, fail_reads>>
            # <<fr_context.stream.fail_seeks, fr_context.stream.fail_reads>>
       /\ fr_context' = [fr_context EXCEPT
                           !.stream.fail_seeks = fail_seeks,
                           !.stream.fail_reads = fail_reads]
  /\ fr_op' = [op |-> "refuse", offset |-> 0, size |-> 0,
               before |-> FileReaderOffset(fr_context), threw |-> FALSE,
               err |-> NoFRError, value |-> <<>>]
  /\ UNCHANGED <<decodevars, genvars, resultvars, bridgevars>>

NextReader == Seek \/ Read \/ U8 \/ U16 \/ U32 \/ U64 \/ SetEndianness \/ Refuse

(* The buffers: n bytes, all different. *)
BufferOf(n) == [i \in 1..n |-> (37 * i) % 256]

InitReader ==
  /\ DecodeInit(<<>>)
  /\ GenIdle(<<>>)
  /\ ResultIdle
  /\ BridgeIdle
  /\ \E stream \in {MemoryFileAdapter(BufferOf(n)) : n \in 0..MaxBufferSize}
                     \cup {FstreamAdapter(BufferOf(n)) : n \in 0..MaxBufferSize}
                     \cup {MockedStream} :
       fr_context = [stream |-> stream, little_endian |-> TRUE]
  /\ fr_op = [op |-> "none"]

SpecReader == InitReader /\ [][NextReader]_vars

----------------------------------------------------------------------------
(* C18.  The cursor of a FileReader and what its IOError carries.          *)

Reads == {"read", "u8", "u16", "u32", "u64"}

(* The bytes the operation of fr_op is to read. *)
Width ==
  CASE fr_op.op = "u8" -> 1
    [] fr_op.op = "u16" -> 2
    [] fr_op.op = "u32" -> 4
    [] fr_op.op = "u64" -> 8
    [] OTHER -> fr_op.size

(* C18: for any sequence of FileReader operations: a successful seek(o)    *)
(* makes offset() equal o; a successful read of n bytes (u8, u16, u32,     *)
(* u64 read 1, 2, 4, 8) advances offset() by exactly n and returns n       *)
(* bytes; when the stream refuses a read the IOError carries the offset    *)
(* the cursor had before the read and the requested size; when it refuses  *)
(* a seek the IOError carries the requested offset.                        *)
C18_CursorAndIOError ==
  /\ fr_op.op = "seek" /\ ~fr_op.threw =>
       FileReaderOffset(fr_context) = fr_op.offset
  /\ fr_op.op \in Reads /\ ~fr_op.threw =>
       /\ FileReaderOffset(fr_context) = fr_op.before + Width
       /\ Len(fr_op.value) = Width
  /\ fr_op.op \in Reads /\ fr_op.threw =>
       fr_op.err = FileReaderError("IOError", Range(fr_op.before, Width))
  /\ fr_op.op = "seek" /\ fr_op.threw =>
       fr_op.err = FileReaderError("IOError", Range(fr_op.offset, 0))

(* A read the stream refused after the cursor had moved, on each stream.   *)
C18_Witness ==
  /\ fr_op.op = "u32"
  /\ fr_op.threw
  /\ fr_op.before > 0
  /\ fr_context.stream.kind = "MemoryFileAdapter"

----------------------------------------------------------------------------
(* Result<Value, Error, use_exceptions>.  A Result is [alive, data,        *)
(* payload, checked]: data the alternative its variant holds, payload the  *)
(* Value or Error held (0: none), checked its flag.  Beside these fields   *)
(* a Result carries a history the properties speak of: called, whether     *)
(* failed() was called on this object since it last received its content;  *)
(* seen, whether failed() was called on a holder of its content since the  *)
(* content was made; emptied, how it last lost its content.                *)

MaxPayload == 2    \* different values, and errors, handed to a Result

(* The Result objects of the caller, by name: a move has a destination    *)
(* and a source.                                                           *)
Slots == {"a", "b"}

Payloads == 1..MaxPayload

Dead ==
  [alive |-> FALSE, data |-> "monostate", payload |-> 0, checked |-> FALSE,
   called |-> FALSE, seen |-> FALSE, emptied |-> "no"]

(* Result(), Result(value), Result(error). *)
NewResult(data, payload) ==
  [Dead EXCEPT !.alive = TRUE, !.data = data, !.payload = payload]

(* verifyInitialized: the ErrorCode it raises, "" when it raises none. *)
verifyInitialized(r) ==
  IF r.data = "monostate" THEN "NotInitialized" ELSE ""

(* failed: [raised, r, ret]. *)
failed(r) ==
  IF verifyInitialized(r) # ""
    THEN [raised |-> verifyInitialized(r), r |-> r, ret |-> FALSE]
    ELSE [raised |-> "", r |-> [r EXCEPT !.checked = TRUE],
          ret |-> r.data = "Error"]

(* verifyAccess without its test of the checked flag. *)
verifyAccessUnchecked(r, as_value) ==
  IF verifyInitialized(r) # "" THEN verifyInitialized(r)
  ELSE IF as_value /\ failed(r).ret THEN "NotAValue"
  ELSE IF ~as_value /\ ~failed(r).ret THEN "NotAnError"
  ELSE ""

(* verifyAccess: the ErrorCode it raises, "" when it raises none. *)
verifyAccess(r, as_value) ==
  IF verifyInitialized(r) # "" THEN verifyInitialized(r)
  ELSE IF ~r.checked THEN "NotChecked"
  ELSE IF as_value /\ failed(r).ret THEN "NotAValue"
  ELSE IF ~as_value /\ ~failed(r).ret THEN "NotAnError"
  ELSE ""

(* value, error: [raised, r, ret]. *)
get(r, as_value) ==
  Bind(verifyAccess(r, as_value), LAMBDA code :
    [raised |-> code, r |-> r, ret |-> IF code = "" THEN r.payload ELSE 0])

value(r) == get(r, TRUE)

error(r) == get(r, FALSE)

(* take that leaves data and checked as they are. *)
takeKeeping(r, as_value) == get(r, as_value)

(* take: [raised, r, ret]. *)
take(r, as_value) ==
  Bind(verifyAccess(r, as_value), LAMBDA code :
    IF code # "" THEN [raised |-> code, r |-> r, ret |-> 0]
    ELSE [raised |-> "",
          r |-> [r EXCEPT !.checked = FALSE, !.data = "monostate",
                          !.payload = 0],
          ret |-> r.payload])

takeValue(r) == take(r, TRUE)

takeError(r) == take(r, FALSE)

(* What the move constructor and the move assignment leave in other. *)
exchanged(other) ==
  [other EXCEPT !.data = "monostate", !.payload = 0, !.checked = FALSE]

(* What they put in the destination. *)
moved(dst, other) ==
  [dst EXCEPT !.alive = TRUE, !.data = other.data, !.payload = other.payload,
              !.checked = other.checked]

(* ~Result: the ErrorCode it raises, "" when it raises none. *)
destructor(r) ==
  IF r.data = "monostate" THEN ""
  ELSE IF ~r.checked THEN "NotChecked"
  ELSE ""

(* raiseError(code) in a member function: a std::logic_error leaves the    *)
(* call, or SIGTRAP ends the program.                                      *)
raiseError(code) ==
  IF code = "" THEN "returned"
  ELSE IF use_exceptions THEN "threw" ELSE "trapped"

(* raiseError(code) in the destructor, which is noexcept: the exception    *)
(* ends the program through std::terminate.                                *)
raiseErrorInDestructor(code) ==
  IF code = "" THEN "returned"
  ELSE IF use_exceptions THEN "terminated" ELSE "trapped"

(* The program goes on. *)
Running == res_op.outcome \in {"returned", "threw"}

(* The operation op on Result on, with the Result other where it has one,  *)
(* ended as outcome: res_op keeps the Results as they were before it.      *)
ResultDid(op, on, other, outcome, raised, ret) ==
  /\ res_op' = [op |-> op, on |-> on, other |-> other,
                before |-> results[on], other_before |-> results[other],
                outcome |-> outcome, raised |-> raised, ret |-> ret]
  /\ UNCHANGED <<decodevars, genvars, readervars, use_exceptions, bridgevars>>

ConstructResult ==
  /\ Running
  /\ \E on \in Slots :
       /\ ~results[on].alive
       /\ \E data \in {"monostate", "Value", "Error"} :
            \E payload \in IF data = "monostate" THEN {0} ELSE Payloads :
              /\ results' = [results EXCEPT ![on] = NewResult(data, payload)]
              /\ ResultDid("construct", on, on, "returned", "", 0)

(* A call of failed(), value(), error(), takeValue() or takeError(): r is  *)
(* what the member function gave.                                          *)
Called(op, on, r) ==
  /\ results' = [results EXCEPT ![on] =
       IF r.raised # "" THEN r.r
       ELSE IF op = "failed" THEN [r.r EXCEPT !.called = TRUE, !.seen = TRUE]
       ELSE IF op \in {"takeValue", "takeError"}
         THEN [r.r EXCEPT !.called = FALSE, !.seen = FALSE,
                          !.emptied = "taken"]
       ELSE r.r]
  /\ ResultDid(op, on, on, raiseError(r.raised), r.raised, r.ret)

CallFailed ==
  /\ Running
  /\ \E on \in Slots :
       results[on].alive /\ Called("failed", on, failed(results[on]))

CallValue ==
  /\ Running
  /\ \E on \in Slots :
       results[on].alive /\ Called("value", on, value(results[on]))

CallError ==
  /\ Running
  /\ \E on \in Slots :
       results[on].alive /\ Called("error", on, error(results[on]))

CallTakeValue ==
  /\ Running
  /\ \E on \in Slots :
       results[on].alive /\ Called("takeValue", on, takeValue(results[on]))

CallTakeError ==
  /\ Running
  /\ \E on \in Slots :
       results[on].alive /\ Called("takeError", on, takeError(results[on]))

(* The histories after a move of other's content into a different Result. *)
Received(r, other) ==
  [r EXCEPT !.called = FALSE, !.seen = other.seen, !.emptied = "no"]

Gave(r) ==
  [r EXCEPT !.called = FALSE, !.seen = FALSE,
            !.emptied = IF r.data = "monostate" /\ @ # "no" THEN @
                        ELSE "moved"]

(* Result(Result &&other). *)
MoveConstruct ==
  /\ Running
  /\ \E on \in Slots, other \in Slots :
       /\ on # other
       /\ ~results[on].alive
       /\ results[other].alive
       /\ results' = [results EXCEPT
            ![on] = Received(moved(Dead, results[other]), results[other]),
            ![other] = Gave(exchanged(results[other]))]
       /\ ResultDid("move", on, other, "returned", "", 0)

(* operator=(Result &&other), other being this Result included. *)
MoveAssign ==
  /\ Running
  /\ \E on \in Slots, other \in Slots :
       /\ results[on].alive
       /\ results[other].alive
       /\ results' =
            IF on # other
              THEN [results EXCEPT
                      ![on] = Received(moved(results[on], results[other]),
                                       results[other]),
                      ![other] = Gave(exchanged(results[other]))]
              ELSE [results EXCEPT
                      ![on].emptied = IF @ = "no" THEN "self_moved" ELSE @]
       /\ ResultDid("move", on, other, "returned", "", 0)

(* The Result goes out of scope. *)
Destroy ==
  /\ Running
  /\ \E on \in Slots :
       /\ results[on].alive
       /\ results' = [results EXCEPT ![on] = Dead]
       /\ ResultDid("destroy", on, on,
                    raiseErrorInDestructor(destructor(results[on])),
                    destructor(results[on]), 0)

NextResult ==
  ConstructResult \/ CallFailed \/ CallValue \/ CallError \/ CallTakeValue
  \/ CallTakeError \/ MoveConstruct \/ MoveAssign \/ Destroy

InitResult ==
  /\ DecodeInit(<<>>)
  /\ GenIdle(<<>>)
  /\ ReaderIdle
  /\ BridgeIdle
  /\ results = [on \in Slots |-> Dead]
  /\ res_op = [op |-> "none", on |-> "a", other |-> "a", before |-> Dead,
               other_before |-> Dead, outcome |-> "returned", raised |-> "",
               ret |-> 0]
  /\ use_exceptions \in BOOLEAN

SpecResult == InitResult /\ [][NextResult]_vars

----------------------------------------------------------------------------
(* C19.  When the accessors of a Result return.                            *)

Getters == {"value", "takeValue", "error", "takeError"}

(* The alternative the accessor of res_op asks for. *)
Wanted == IF res_op.op \in {"value", "takeValue"} THEN "Value" ELSE "Error"

Raised == res_op.outcome \in {"threw", "trapped"} /\ res_op.raised # ""

(* The statement with the failed() call required on the object itself:     *)
(* value()/takeValue() return only when the Result holds a value and       *)
(* failed() has been called on it since it last received its content,      *)
(* error()/takeError() only when it holds an error and failed() has been   *)
(* called on it; in every other state the accessor raises.                 *)
C19_ReturnsIffHeldAndCalledHere ==
  res_op.op \in Getters =>
    /\ res_op.outcome = "returned"
         <=> (res_op.before.data = Wanted /\ res_op.before.called)
    /\ res_op.outcome # "returned" => Raised

(* C19: value()/takeValue() return, with the value held, exactly when the  *)
(* Result holds a value and failed() has been called, on it or on the      *)
(* Result its content was moved from, since that content was made;         *)
(* error()/takeError() return, with the error held, exactly when it holds  *)
(* an error and failed() has been called so; in every other state          *)
(* (default-constructed, moved-from, already taken, never checked, or      *)
(* holding the other alternative) the accessor raises instead of           *)
(* returning.  The checked flag is that history.                           *)
C19_ReturnsIffHeldAndChecked ==
  /\ res_op.op \in Getters =>
       /\ res_op.outcome = "returned"
            <=> (res_op.before.data = Wanted /\ res_op.before.seen)
       /\ res_op.outcome = "returned" => res_op.ret = res_op.before.payload
       /\ res_op.outcome # "returned" => Raised
  /\ \A on \in Slots : results[on].checked = results[on].seen

(* value() returned on a Result failed() was never called on: its content  *)
(* was checked before it was moved in.                                     *)
C19_Witness ==
  /\ res_op.op = "value"
  /\ res_op.outcome = "returned"
  /\ res_op.before.seen
  /\ ~res_op.before.called

----------------------------------------------------------------------------
(* C20.  A Result after a take and after a move.                           *)

Calls == Getters \cup {"failed"}

(* What holds of a Result that lost its content in one of the ways how:    *)
(* it is uninitialized, every call on it raises, destroying it raises      *)
(* nothing; and a move's destination holds the moved content, failed()     *)
(* answering by the content held.                                          *)
AfterEmptied(how) ==
  /\ \A on \in Slots :
       results[on].alive /\ results[on].emptied \in how =>
         results[on].data = "monostate" /\ ~results[on].checked
  /\ res_op.op \in Calls /\ res_op.before.emptied \in how => Raised
  /\ res_op.op = "destroy" /\ res_op.before.emptied \in how =>
       res_op.outcome = "returned"
  /\ res_op.op = "move" =>
       /\ results[res_op.on].data = res_op.other_before.data
       /\ results[res_op.on].payload = res_op.other_before.payload
  /\ res_op.op = "failed" /\ res_op.outcome = "returned" =>
       res_op.ret = (res_op.before.data = "Error")

(* The statement with every move counted, the move assignment of a Result  *)
(* to itself included: after a successful takeValue()/takeError(), and     *)
(* after a Result has been moved from, that Result is uninitialized.       *)
C20_UninitializedAfterAnyMove ==
  AfterEmptied({"taken", "moved", "self_moved"})

(* C20: after a successful takeValue()/takeError(), and after a Result     *)
(* has been moved from into another Result (move construction or move      *)
(* assignment), that Result is uninitialized: every later failed(),        *)
(* value(), error(), takeValue() or takeError() on it raises, and          *)
(* destroying it raises nothing; the move destination holds the moved      *)
(* content and answers failed() according to it.  A Result move-assigned   *)
(* to itself keeps its content.                                            *)
C20_UninitializedAfterTakeOrMove ==
  /\ AfterEmptied({"taken", "moved"})
  /\ res_op.op = "move" /\ res_op.on = res_op.other =>
       /\ results[res_op.on].data = res_op.before.data
       /\ results[res_op.on].payload = res_op.before.payload
       /\ results[res_op.on].checked = res_op.before.checked

(* failed() raised on a Result whose value had been moved out. *)
C20_Witness ==
  /\ res_op.op = "failed"
  /\ res_op.before.emptied = "moved"
  /\ res_op.outcome = "threw"
  /\ \E on \in Slots : on # res_op.on /\ results[on].data = "Value"

----------------------------------------------------------------------------
(* C21, C22.  What materializeStructPadding accepts.                       *)

(* The Struct types as decode gave them, before any padding. *)
DecodedStructs ==
  {id \in DOMAIN d_btf_type_map : d_btf_type_map[id].kind = "Struct"}

(* The member loop over the first n members of the decoded Struct id. *)
MemberLoop(id, n) ==
  padMembers(d_btf_type_map, 0,
             SubSeq(d_btf_type_map[id].member_list, 1, n), 1, <<>>, 0)

(* The running bit offset after the last member of the decoded Struct id,  *)
(* computed without wrap-around; -1 when the member loop does not come to  *)
(* its end.                                                                *)
RunningEnd(id) ==
  Bind(MemberLoop(id, Len(d_btf_type_map[id].member_list)), LAMBDA m :
    IF m.st = "ok" THEN m.current_offset ELSE -1)

FirstPaddingSucceeded == PaddingSucceeded /\ gen_run = 1

(* C21: padding materialization of a struct succeeds only if the running   *)
(* bit offset after its last member, computed without wrap-around, is at   *)
(* most size*8, and the padded list then ends at size*8: a struct whose    *)
(* members extend past its declared size makes the step fail, it does not  *)
(* produce a member list.                                                  *)
C21_PaddingFailsPastSize ==
  FirstPaddingSucceeded =>
    \A id \in DecodedStructs :
      /\ RunningEnd(id) >= 0
      /\ RunningEnd(id) <= d_btf_type_map[id].size * 8
      /\ Tiles(context.btf_type_map, id)

(* The member loop rejects member n of the decoded Struct id by its        *)
(* offset: it came to member n and the running offset is past it.          *)
RejectedByOffset(id, n) ==
  /\ MemberLoop(id, n - 1).st = "ok"
  /\ MemberLoop(id, n - 1).current_offset > d_btf_type_map[id].member_list[n].offset

(* generate() is at materializePadding, in its first run. *)
AtFirstPadding == gen_pc = "padding" /\ gen_run = 1

(* C22: padding materialization tolerates two consecutive members with     *)
(* the same bit offset and fails for a member whose bit offset is smaller  *)
(* than its predecessor's: the member loop rejects a member by its offset  *)
(* exactly when that offset is smaller than the offset of the member       *)
(* before it.                                                              *)
C22_RejectsOnlyDecreasingOffsets ==
  AtFirstPadding =>
    \A id \in DecodedStructs :
      \A n \in 1..Len(d_btf_type_map[id].member_list) :
        MemberLoop(id, n - 1).st = "ok" =>
          (RejectedByOffset(id, n)
             <=> /\ n > 1
                 /\ d_btf_type_map[id].member_list[n].offset
                      < d_btf_type_map[id].member_list[n - 1].offset)

----------------------------------------------------------------------------
(* C23.  Weak and strong links of the dependency tree.                     *)

(* The paths that lead from the type id, through types that are not top    *)
(* level declarations, to top level declarations: the set of               *)
(* <<child, through_ptr>>, through_ptr telling whether the path passed     *)
(* through a Ptr.  With nested_resets an anonymous Struct or Union on the  *)
(* path makes the path count as one that has not passed through a Ptr      *)
(* yet.  passed holds the types the path has gone through.                 *)
RECURSIVE PathsFrom(_, _, _, _, _)
PathsFrom(c, id, through_ptr, passed, nested_resets) ==
  IF id = 0 \/ id \notin DOMAIN c.btf_type_map \/ id \in passed THEN {}
  ELSE IF isTopLevelTypeDeclaration(c, id)
    THEN {<<id, through_ptr>>}
  ELSE IF c.btf_type_map[id].kind
            \notin {"Ptr", "Array", "Volatile", "Const", "Restrict",
                    "FuncProto", "Struct", "Union"}
    THEN {}
  ELSE UNION {PathsFrom(c, dep,
                        CASE c.btf_type_map[id].kind = "Ptr" -> TRUE
                          [] c.btf_type_map[id].kind \in {"Struct", "Union"}
                             /\ nested_resets -> FALSE
                          [] OTHER -> through_ptr,
                        passed \cup {id}, nested_resets) :
                dep \in {getTypeDependencies(c.btf_type_map, id).list[n] :
                           n \in 1..Len(getTypeDependencies(
                                          c.btf_type_map, id).list)}}

(* The paths from the top level declaration parent to its children. *)
PathsOf(c, parent, nested_resets) ==
  UNION {PathsFrom(c, dep, FALSE, {}, nested_resets) :
           dep \in {getTypeDependencies(c.btf_type_map, parent).list[n] :
                      n \in 1..Len(getTypeDependencies(
                                     c.btf_type_map, parent).list)}}

(* The link list of parent in type_tree. *)
LinkList(type_tree, parent) ==
  IF parent \in DOMAIN type_tree THEN type_tree[parent] ELSE <<>>

(* type_tree holds, for every top level declaration, a link to exactly     *)
(* the children its paths lead to, weak exactly for the Struct and Union   *)
(* children that every path reaches through a Ptr.                         *)
LinksFollowPaths(c, nested_resets) ==
  \A parent \in c.top_level_type_list :
    /\ DOMAIN LinkList(c.type_tree, parent)
         = {reached[1] : reached \in PathsOf(c, parent, nested_resets)}
    /\ \A child \in DOMAIN LinkList(c.type_tree, parent) :
         LinkList(c.type_tree, parent)[child]
           <=> /\ c.btf_type_map[child].kind \in {"Struct", "Union"}
               /\ <<child, FALSE>> \notin PathsOf(c, parent, nested_resets)

(* createTypeTree returned true and generate() is at its next step. *)
TreeCreated == gen_pc = "loops"

(* The statement with every Ptr on the path counted: the link from a top   *)
(* level type to a child is weak if and only if the child is a Struct or   *)
(* Union and every path from the parent to it passed through a Ptr.        *)
C23_WeakIffEveryPathThroughPtr ==
  TreeCreated => LinksFollowPaths(context, FALSE)

(* C23: in the dependency tree, the link from a top level type P to a      *)
(* child C is weak if and only if C is a Struct or Union and every path    *)
(* by which P reaches C passed through a Ptr after the last anonymous      *)
(* Struct or Union on it (the members of a nested anonymous type are       *)
(* needed complete); if any path is strong the link is strong, whatever    *)
(* the order in which the paths are visited.                               *)
C23_WeakIffEveryPathEndsThroughPtr ==
  TreeCreated => LinksFollowPaths(context, TRUE)

(* A child reached by a member and by a pointer member: the link is        *)
(* strong.                                                                 *)
C23_Witness ==
  /\ TreeCreated
  /\ \E parent \in context.top_level_type_list :
       \E child \in DOMAIN LinkList(context.type_tree, parent) :
         /\ <<child, TRUE>> \in PathsOf(context, parent, TRUE)
         /\ <<child, FALSE>> \in PathsOf(context, parent, TRUE)
         /\ ~LinkList(context.type_tree, parent)[child]

----------------------------------------------------------------------------
(* C24.  The Fwd that stands for a named Struct or Union.                  *)

(* The Fwd type f stands rightly for the type id: it is a Fwd, named as    *)
(* the type, a union exactly when the type is one.                         *)
FwdMatches(c, f, id) ==
  /\ f \in DOMAIN c.btf_type_map
  /\ c.btf_type_map[f].kind = "Fwd"
  /\ Some(c.btf_type_map[f].name) = getTypeName(c.btf_type_map, id)
  /\ c.btf_type_map[f].is_union = (c.btf_type_map[id].kind = "Union")

(* C24: whenever a Fwd is put in the place of a named Struct or Union S    *)
(* (as createTypeQueue does for every weak link to S), the id used denotes *)
(* a Fwd type whose name is the name of S and whose is_union tells whether *)
(* S is a Union, also when a Fwd with that name was decoded from the       *)
(* input or created earlier.                                               *)
C24_FwdMatchesType ==
  QueueCreated =>
    \A link \in WeakLinks(context.type_tree) :
      /\ FwdOf(context, link[2]) # {}
      /\ \A f \in FwdOf(context, link[2]) : FwdMatches(context, f, link[2])

----------------------------------------------------------------------------
(* adjustTypeNames: the uniqueness keys it leaves.                         *)

(* generate() is past adjustTypeNames on the decoded map. *)
NamesAdjusted == gen_pc = "scan" /\ gen_run = 1

(* The types of map that adjustTypeNames gives a key. *)
KeyedTypes(map) == {id \in NamedTypes(map) : getTypeName(map, id).has}

(* The key adjustTypeNames puts into visited_name_list for id. *)
KeyOf(map, id) ==
  NameKey(map[id].kind \in {"Struct", "Union", "Enum"},
          getTypeName(map, id).val)

(* C25: after adjustTypeNames succeeds the uniqueness keys of the named    *)
(* Struct, Union, Enum, Typedef and Int types are pairwise distinct, the   *)
(* key of a renamed type included.                                         *)
C25_KeysPairwiseDistinct ==
  NamesAdjusted =>
    \A a, b \in KeyedTypes(context.btf_type_map) :
      a # b => KeyOf(context.btf_type_map, a) # KeyOf(context.btf_type_map, b)

(* id is the smallest id among the decoded types with its key. *)
SmallestOfKey(id) ==
  \A other \in KeyedTypes(d_btf_type_map) :
    KeyOf(d_btf_type_map, other) = KeyOf(d_btf_type_map, id) => id <= other

(* C26: adjustTypeNames walks the types in ascending id order: among the   *)
(* types with the same key the one with the smallest id keeps its name.    *)
C26_SmallestIdKeepsName ==
  NamesAdjusted =>
    \A id \in KeyedTypes(d_btf_type_map) :
      SmallestOfKey(id) =>
        getTypeName(context.btf_type_map, id) = getTypeName(d_btf_type_map, id)

----------------------------------------------------------------------------
(* createTypeQueue: what the emission queue holds.                         *)

(* The top-level types of map: its named Struct, Union, Enum, Typedef and  *)
(* Fwd types.                                                              *)
TopLevelTypes(map) ==
  {id \in DOMAIN map :
     /\ map[id].kind \in {"Struct", "Union", "Enum", "Typedef", "Fwd"}
     /\ getTypeName(map, id).has}

(* The number of places of type_queue that hold id. *)
Occurrences(type_queue, id) ==
  Cardinality({n \in 1..Len(type_queue) : type_queue[n] = id})

----------------------------------------------------------------------------
(* LLVMBridge::importAllTypes as a state machine: the constructor of       *)
(* LLVMBridge takes getAll() of the decoded object and runs it.            *)

(* The constructor up to the loop: next_id_queue is filled from the        *)
(* unordered type map, and id 0 is given the void type.                    *)
BeginImport ==
  /\ pc = "done"
  /\ object
  /\ br_pc = "idle"
  /\ \E order \in Perms(DOMAIN d_btf_type_map) :
       br_loop' = [NoLoop EXCEPT !.next_id_queue = order]
  /\ br_context' =
       [NewBridgeContext EXCEPT
          !.btf_type_map = d_btf_type_map,
          !.btf_type_id_to_llvm = (0 :> VoidTy),
          !.llvm_to_btf_type_id = (VoidTy :> 0)]
  /\ br_pc' = "loop"
  /\ UNCHANGED br_result
  /\ UNCHANGED <<decodevars, genvars, readervars, resultvars>>

(* `while (!next_id_queue.empty())` entered: the queues are swapped. *)
BeginPass ==
  /\ br_pc = "loop"
  /\ br_loop.next_id_queue # <<>>
  /\ br_loop' = [br_loop EXCEPT !.current_id_queue = br_loop.next_id_queue,
                                !.next_id_queue = <<>>,
                                !.pos = 1,
                                !.updated = FALSE,
                                !.pass_imported = 0]
  /\ br_pc' = "pass"
  /\ UNCHANGED <<br_context, br_result>>
  /\ UNCHANGED <<decodevars, genvars, readervars, resultvars>>

(* One turn of the loop over current_id_queue. *)
ImportType ==
  /\ br_pc = "pass"
  /\ br_loop.pos <= Len(br_loop.current_id_queue)
  /\ Bind(br_loop.current_id_queue[br_loop.pos], LAMBDA id :
       Bind(importType(br_context, id, br_context.btf_type_map[id]),
            LAMBDA r :
         /\ br_context' = r.c
         /\ CASE r.err = "none" ->
                   /\ br_loop' = [br_loop EXCEPT
                                    !.updated = TRUE,
                                    !.pos = @ + 1,
                                    !.imported = @ \cup {id},
                                    !.pass_imported = @ + 1]
                   /\ UNCHANGED <<br_pc, br_result>>
              [] r.err = "MissingDependency" ->
                   /\ br_loop' = [br_loop EXCEPT
                                    !.next_id_queue = Append(@, id),
                                    !.pos = @ + 1]
                   /\ UNCHANGED <<br_pc, br_result>>
              [] OTHER ->
                   /\ br_pc' = "done"
                   /\ br_result' = r.err
                   /\ UNCHANGED br_loop))
  /\ UNCHANGED <<decodevars, genvars, readervars, resultvars>>

(* The end of a pass: `if (!updated) break;`. *)
EndPass ==
  /\ br_pc = "pass"
  /\ br_loop.pos > Len(br_loop.current_id_queue)
  /\ br_loop' = [br_loop EXCEPT !.passes = Append(@, br_loop.pass_imported)]
  /\ br_pc' = IF br_loop.updated THEN "loop" ELSE "after"
  /\ UNCHANGED <<br_context, br_result>>
  /\ UNCHANGED <<decodevars, genvars, readervars, resultvars>>

(* importAllTypes returning std::nullopt whatever is left in the queue. *)
ReturnImportNullopt ==
  /\ \/ br_pc = "loop" /\ br_loop.next_id_queue = <<>>
     \/ br_pc = "after"
  /\ br_result' = "none"
  /\ br_pc' = "done"
  /\ UNCHANGED <<br_context, br_loop>>
  /\ UNCHANGED <<decodevars, genvars, readervars, resultvars>>

(* After the loop: MissingDependency when next_id_queue is not empty. *)
ReturnImport ==
  /\ \/ br_pc = "loop" /\ br_loop.next_id_queue = <<>>
     \/ br_pc = "after"
  /\ br_result' = IF br_loop.next_id_queue # <<>> THEN "MissingDependency"
                  ELSE "none"
  /\ br_pc' = "done"
  /\ UNCHANGED <<br_context, br_loop>>
  /\ UNCHANGED <<decodevars, genvars, readervars, resultvars>>

NextImport ==
  \/ OpenFile \/ BeginSection \/ ParseType \/ EndSection \/ Finish
  \/ BeginImport \/ BeginPass \/ ImportType \/ EndPass \/ ReturnImport

(* Records of the kinds the generator family leaves out. *)

(* int f(void); and a pointer to the Func, not to its FuncProto. *)
PointerToFunc == <<PtrTo(2), FuncOf(3, 3), FuncProtoOf(4), IntOf(4)>>

(* A Float of 2 bytes, and a pointer to a float of 4. *)
FloatOf(size) == Rec(9, 0, 16, 0, size, <<>>)
HalfFloat == <<PtrTo(3), FloatOf(2), FloatOf(4)>>

(* struct S { T *a; U *b; }; typedef struct S T; typedef T U; *)
DeepChain ==
  <<PtrTo(2), PtrTo(3), TypedefOf(5, 4), TypedefOf(3, 5),
    StructOf(1, 16, <<(<<1, 0>>), (<<2, 64>>)>>)>>

ImportScenarios ==
  <<TypedefLoop, TypedefChain, WeakLink, FwdDecoded, PointerToFunc, HalfFloat,
    DeepChain>>

InitImport ==
  /\ \/ \E code \in GenCodes :
          DecodeInit(GenInput([n \in 1..Len(code) |-> GenVocab[code[n]]]))
     \/ \E n \in 1..Len(ImportScenarios) :
          DecodeInit(GenInput(ImportScenarios[n]))
  /\ GenIdle(<<>>)
  /\ LibIdle

(* importAllTypes once called runs to its return: none of its steps       *)
(* waits for anything.                                                     *)
ImportStep == BeginPass \/ ImportType \/ EndPass \/ ReturnImport

SpecImport == InitImport /\ [][NextImport]_vars /\ WF_vars(ImportStep)

----------------------------------------------------------------------------
(* importAllTypes: its loop and what it returns.                           *)

ImportCalled == br_pc # "idle"
ImportReturned == br_pc = "done"

(* The pass that ended last imported nothing. *)
LastPassIdle ==
  /\ br_loop.passes # <<>>
  /\ br_loop.passes[Len(br_loop.passes)] = 0

(* Every pass that ended imported a type, or was the last and ended the    *)
(* loop.                                                                   *)
PassesImportOrEnd ==
  \A n \in 1..Len(br_loop.passes) :
    br_loop.passes[n] = 0 =>
      n = Len(br_loop.passes) /\ br_pc \in {"after", "done"}

(* What importAllTypes returned, against what its passes did. *)
ReturnsByPasses ==
  ImportReturned =>
    /\ br_result = "none" <=>
         br_loop.imported = DOMAIN br_context.btf_type_map
    /\ br_result = "MissingDependency" <=>
         LastPassIdle /\ br_loop.next_id_queue # <<>>
    /\ br_result \notin {"none", "MissingDependency"} =>
         /\ br_loop.pos \in 1..Len(br_loop.current_id_queue)
         /\ Bind(br_loop.current_id_queue[br_loop.pos], LAMBDA id :
              /\ id \notin br_loop.imported
              /\ importType(br_context, id, br_context.btf_type_map[id]).err
                   = br_result)

(* C28: the import loop ends for every type map; each pass imports a type  *)
(* or ends the loop; success is returned exactly when every type was       *)
(* imported, MissingDependency exactly when a whole pass imported nothing  *)
(* and types remain deferred, and any other error of importType ends the   *)
(* loop at the type that gave it.                                          *)
C28_ImportLoopEnds ==
  /\ [](ImportCalled => PassesImportOrEnd /\ ReturnsByPasses)
  /\ (ImportCalled ~> ImportReturned)

(* A map imported in three passes or more, types deferred in the first. *)
C28_Witness ==
  /\ ImportReturned
  /\ br_result = "none"
  /\ Len(br_loop.passes) >= 3
  /\ br_loop.passes[1] < Cardinality(DOMAIN br_context.btf_type_map)

----------------------------------------------------------------------------
(* generateHeader: the identifiers of the declarators.                     *)

(* The type a declarator of the type id names: id without the Ptr, Array,  *)
(* Volatile, Const and Restrict in front of it.                            *)
RECURSIVE DeclaredType(_, _)
DeclaredType(map, id) ==
  IF id \notin DOMAIN map THEN id
  ELSE IF map[id].kind \in {"Ptr", "Array", "Volatile", "Const", "Restrict"}
    THEN DeclaredType(map, map[id].type)
  ELSE id

(* The identifiers a declaration of the type id, naming opt_name, has to   *)
(* hold, in the order of the text, depth declarations deep: each member's  *)
(* name after the names inside the member's own type, a typedef's name in  *)
(* the slot of the type it names, none for a return type or a parameter.   *)
RECURSIVE DeclaredNames(_, _, _, _, _)
DeclaredNames(map, id, as_type_definition, opt_name, depth) ==
  Bind(DeclaredType(map, id), LAMBDA declared :
    Bind(IF opt_name.has
           THEN <<NameToken(opt_name.val, declared, depth)>> ELSE <<>>,
         LAMBDA own :
      IF declared \notin DOMAIN map THEN own
      ELSE Bind(map[declared], LAMBDA btf_type :
        CASE btf_type.kind \in {"Struct", "Union"} ->
               IF as_type_definition \/ ~btf_type.opt_name.has
                 THEN Concat([n \in 1..Len(btf_type.member_list) |->
                                DeclaredNames(map,
                                              btf_type.member_list[n].type,
                                              FALSE,
                                              btf_type.member_list[n].opt_name,
                                              depth + 1)])
                      \o own
                 ELSE own
          [] btf_type.kind = "Typedef" /\ as_type_definition ->
               DeclaredNames(map, btf_type.type, FALSE, Some(btf_type.name),
                             depth)
          [] btf_type.kind = "FuncProto" ->
               DeclaredNames(map, btf_type.return_type, FALSE, None,
                             depth + 1)
               \o own
               \o Concat([n \in 1..Len(btf_type.param_list) |->
                            DeclaredNames(map, btf_type.param_list[n].type,
                                          FALSE, None, depth + 1)])
          [] OTHER -> own)))

(* The identifiers the header of the queue of c has to hold. *)
QueuedNames(c) ==
  Concat([n \in 1..Len(c.type_queue) |->
            IF HasPrefix(getTypeName(c.btf_type_map, c.type_queue[n]).val,
                         BuiltinPrefix)
              THEN <<>>
            ELSE DeclaredNames(c.btf_type_map, c.type_queue[n], TRUE, None,
                               0)])

(* The identifiers of a header text. *)
NamesOf(text) == SelectSeq(text, LAMBDA token : token.t = "name")

(* generate() returned true: header is the text of generateHeader. *)
HeaderWritten == gen_pc = "done" /\ gen_result = "true"

(* C29: the identifier of a declarator (a member's name, a top-level       *)
(* typedef's name) is written exactly once, in the slot of the type that   *)
(* declarator names and at the declarator's own depth, never inside a      *)
(* nested member, a return type or a parameter; and every generateType     *)
(* call that returns true leaves the three stacks as deep as it found      *)
(* them.                                                                   *)
C29_IdentifiersInOwnSlots ==
  /\ QueueCreated =>
       Bind(generateHeader(context), LAMBDA r : r.st = "ok" => r.paired)
  /\ HeaderWritten =>
       /\ NamesOf(header) = QueuedNames(context)
       /\ StackDepths(context) = <<0, 0, 0>>
       /\ ~context.opt_variable_name.has
       /\ ~context.opt_typedef_name.has

(* A header written with the name of a function pointer member, in the    *)
(* slot of the FuncProto inside the struct's body, and a second name.      *)
C29_Witness ==
  /\ HeaderWritten
  /\ Len(NamesOf(header)) >= 2
  /\ \E n \in 1..Len(header) :
       /\ header[n].t = "name"
       /\ header[n].depth = 1
       /\ header[n].id \in DOMAIN context.btf_type_map
       /\ context.btf_type_map[header[n].id].kind = "FuncProto"

----------------------------------------------------------------------------
(* parseString and the cursor of the reader it reads through.              *)

(* Every offset into the string sections of the list l, and two past them. *)
StringOffsets(l) ==
  0..(Sum([k \in 1..Len(l) |-> l[k].btf_header.str_len]) + 1)

(* A lookup made where the decoder stands, of any offset, leaves every     *)
(* reader where it was if it succeeds.                                     *)
LookupsRestoreCursor ==
  \A offset \in StringOffsets(btf_file_list) :
    Bind(parseString(files, btf_file_list, [rs |-> readers, log |-> <<>>],
                     offset),
         LAMBDA r : ~r.failed => r.st.rs = readers)

(* The bytes a record of the decoded type btf_type has after its header.   *)
RecordDataSize(btf_type) ==
  CASE btf_type.kind = "Int" -> kIntBTFTypeSize
    [] btf_type.kind = "Array" -> kArrayBTFTypeSize
    [] btf_type.kind \in {"Struct", "Union"} ->
         3 * 4 * Len(btf_type.member_list)
    [] btf_type.kind = "Enum" ->
         kEnumValueBTFTypeSize * Len(btf_type.value_list)
    [] btf_type.kind = "FuncProto" ->
         2 * 4 * (Len(btf_type.param_list)
                  + IF btf_type.is_variadic THEN 1 ELSE 0)
    [] btf_type.kind = "Var" -> kVarDataSize
    [] btf_type.kind = "DataSec" ->
         kVarSecInfoSize * Len(btf_type.variable_list)
    [] OTHER -> 0

(* This step of parseTypeSections inserted the record it parsed. *)
RecordParsed == pc = "record" /\ type_id' # type_id

(* After such a step the reader of the section stands at the end of the    *)
(* record and every other reader where it stood.                           *)
CursorAfterRecord ==
  readers' = [readers EXCEPT
                ![btf_file_list[sect].file].file_pos =
                  current_offset' + kBTFTypeHeaderSize
                  + RecordDataSize(btf_type_map'[type_id])]

(* C30: a string lookup that succeeds leaves the cursor of the reader it   *)
(* used where it was; so a record whose names were resolved, in its own    *)
(* blob or in another one, leaves its reader at the end of the record,     *)
(* where the next record is read, and the other readers untouched.         *)
C30_LookupKeepsCursor ==
  /\ [](pc = "record" => LookupsRestoreCursor)
  /\ [][RecordParsed => CursorAfterRecord]_vars

(* A record was parsed whose name was found in another blob than its own,  *)
(* and a record follows it in the section.                                 *)
C30_Witness ==
  /\ pc = "record"
  /\ type_id - 1 \in DOMAIN btf_type_map
  /\ Offset(btf_file_list, sect, [rs |-> readers])
       = current_offset + kBTFTypeHeaderSize
         + RecordDataSize(btf_type_map[type_id - 1])
  /\ Offset(btf_file_list, sect, [rs |-> readers]) < sect_end
  /\ \E n \in 1..Len(str_log) : str_log[n].blob \notin {0, sect}

============================================================================
